---- MODULE Spec2Model ----
(***************************************************************************)
(* papercraft-web backend: the project state held by the HTTP server       *)
(* (main.rs), the operations of the unfold/layout engine that the request  *)
(* handlers call, and the collection passes of the vector exporter         *)
(* (vector_export.rs).                                                     *)
(*                                                                         *)
(* The engine itself (paper/craft.rs, paper/model.rs) is not part of the   *)
(* source tree at hand; its operations are modelled from the design        *)
(* document and are marked as such in MODEL_MAP.json.                      *)
(***************************************************************************)
EXTENDS Integers, Sequences, FiniteSets, TLC

VARIABLES project, response, last, nops, handlers, temp_dir, boot, solved

vars == <<project, response, last, nops, handlers, temp_dir, boot, solved>>

\* the handlers in flight, the temporary directory and the project at start
httpvars == <<handlers, temp_dir, boot, solved>>

----------------------------------------------------------------------------
(* Bounds *)

\* number of requests handled in one run of the sequential specification
MaxOps == 3
MaxRequests == 2
\* the UV coordinates of the triangles given to the solver are 0..UVMax
UVMax == 2

\* size in mm of one unfolded face at the import scale: an island of n faces
\* unfolds to a strip of n faces
FaceW == 40
FaceH == 30

----------------------------------------------------------------------------
(* The mesh: three triangles around an apex (vertex 0), an open fan.  The   *)
(* three spokes are internal edges (two faces), the three rim edges have   *)
(* one face.  The face graph over the spokes is a cycle.                   *)

NoFace == 0 - 1

Vertices == 0..3
Faces == 0..2
Edges == 0..5

\* Face::index_vertices, in winding order
FaceVerts(f) == <<<<0, 1, 2>>, <<0, 2, 3>>, <<0, 3, 1>>>>[f + 1]

\* Face::index_edges, in winding order: side i runs from vertex i to vertex i+1
FaceEdges(f) == <<<<0, 3, 1>>, <<1, 4, 2>>, <<2, 5, 0>>>>[f + 1]

\* the two end points of an edge
EdgeVerts(e) == <<<<0, 1>>, <<0, 2>>, <<0, 3>>, <<1, 2>>, <<2, 3>>, <<3, 1>>>>[e + 1]

\* Edge::faces: (a, Option b); a runs the edge from its first end point
EdgeFaces(e) ==
    <<<<0, 2>>, <<1, 0>>, <<2, 1>>, <<0, NoFace>>, <<1, NoFace>>, <<2, NoFace>>>>[e + 1]

HasEdge(f, e) == \E j \in 1..Len(FaceEdges(f)) : FaceEdges(f)[j] = e

\* Face::vertices_of_edge: the end points in the face's winding order
vertices_of_edge(f, e) ==
    IF EdgeFaces(e)[1] = f THEN EdgeVerts(e) ELSE <<EdgeVerts(e)[2], EdgeVerts(e)[1]>>

\* Edge::face_by_sign: sign TRUE is the face that runs the edge v0 -> v1
face_by_sign(e, sign) == IF sign THEN EdgeFaces(e)[1] ELSE EdgeFaces(e)[2]

\* the tables above describe one mesh
MeshConsistent ==
    /\ \A f \in Faces : \A i \in 1..3 :
          LET e == FaceEdges(f)[i]
              side == <<FaceVerts(f)[i], FaceVerts(f)[(i % 3) + 1]>>
          IN  /\ f \in {EdgeFaces(e)[1], EdgeFaces(e)[2]}
              /\ vertices_of_edge(f, e) = side
    /\ \A e \in Edges : \A j \in 1..2 :
          EdgeFaces(e)[j] # NoFace => HasEdge(EdgeFaces(e)[j], e)

HasTwoFaces(e) == EdgeFaces(e)[2] # NoFace

----------------------------------------------------------------------------
(* EdgeStatus *)

Joined == "Joined"
Hidden == "Hidden"
FlapSides == {"None", "A", "B", "Both"}

Cut(side) ==
    CASE side = "None" -> "CutNone"
      [] side = "A" -> "CutA"
      [] side = "B" -> "CutB"
      [] side = "Both" -> "CutBoth"

CutStatuses == {Cut(s) : s \in FlapSides}

IsCut(st) == st \in CutStatuses

SideOf(st) == CHOOSE s \in FlapSides : Cut(s) = st

\* FlapSide::flap_visible(sign): A is the face of sign TRUE
flap_visible(side, sign) ==
    \/ side = "Both"
    \/ side = "A" /\ sign
    \/ side = "B" /\ ~sign

----------------------------------------------------------------------------
(* Connectivity of faces over Joined edges *)

\* the face on the other side of edge e of face f
Across(f, e) == IF EdgeFaces(e)[1] = f THEN EdgeFaces(e)[2] ELSE EdgeFaces(e)[1]

JoinedNeighbours(edges, f) ==
    {Across(f, FaceEdges(f)[i]) :
        i \in {j \in 1..Len(FaceEdges(f)) :
                 edges[FaceEdges(f)[j]] = Joined /\ HasTwoFaces(FaceEdges(f)[j])}}

RECURSIVE Grow(_, _)
Grow(edges, S) ==
    LET T == S \cup UNION {JoinedNeighbours(edges, f) : f \in S}
    IN  IF T = S THEN S ELSE Grow(edges, T)

Component(edges, f) == Grow(edges, {f})

----------------------------------------------------------------------------
(* Option values are sequences of length 0 or 1 *)

None == <<>>
Some(x) == <<x>>
IsSome(o) == Len(o) = 1
Unwrap(o) == o[1]

Min(S) == CHOOSE x \in S : \A y \in S : x <= y
Max(S) == CHOOSE x \in S : \A y \in S : x >= y

----------------------------------------------------------------------------
(* PaperOptions: pagination *)

\* separator between the pages of the page grid, in mm
PAGE_SEP == 10

MaxU(a, b) == IF a >= b THEN a ELSE b

\* a page grid without the separator between the sheets
page_position_NoSeparator(o, p) ==
    <<(p % MaxU(o.page_cols, 1)) * o.page_size[1],
      (p \div MaxU(o.page_cols, 1)) * o.page_size[2]>>

\* PaperOptions::page_position
page_position(o, p) ==
    <<(p % MaxU(o.page_cols, 1)) * (o.page_size[1] + PAGE_SEP),
      (p \div MaxU(o.page_cols, 1)) * (o.page_size[2] + PAGE_SEP)>>

\* PaperOptions::global_to_page: row and column of the grid slot of a point
global_to_page(o, pt) ==
    [row |-> pt[2] \div (o.page_size[2] + PAGE_SEP),
     col |-> pt[1] \div (o.page_size[1] + PAGE_SEP)]

----------------------------------------------------------------------------
(* Papercraft: the project.                                                *)
(*   edges     EdgeIndex -> EdgeStatus                                     *)
(*   islands   IslandKey -> [root, faces, loc, rot]                        *)
(*   next_key  the next fresh island key                                   *)
(*   options   PaperOptions                                                *)

IslandKeys(p) == DOMAIN p.islands

\* Papercraft::island_by_face
island_by_face(p, f) == CHOOSE k \in IslandKeys(p) : f \in p.islands[k].faces

\* Papercraft::island_bounding_box_angle(island, 0): min and max corner
island_bounding_box_angle(isl) ==
    <<isl.loc, <<isl.loc[1] + Cardinality(isl.faces) * FaceW, isl.loc[2] + FaceH>>>>

BoxCenter(bb) == <<(bb[1][1] + bb[2][1]) \div 2, (bb[1][2] + bb[2][2]) \div 2>>

Ret(p, r) == [project |-> p, result |-> r]

\* Papercraft::edge_cut
edge_cut(p, e, offset) ==
    IF e \notin Edges THEN Ret(p, "UnknownKey")
    ELSE
    LET a == EdgeFaces(e)[1]
        b == EdgeFaces(e)[2]
        edges1 == [p.edges EXCEPT ![e] = Cut("None")]
        p1 == [p EXCEPT !.edges = edges1]
    IN  IF ~HasTwoFaces(e) THEN Ret(p1, "Ok")
        ELSE
        LET k == island_by_face(p, a)
            isl == p.islands[k]
            d == IF IsSome(offset) /\ Unwrap(offset) < 0 THEN b ELSE a
            other == IF d = a THEN b ELSE a
            comp == Component(edges1, d)
            shift == IF IsSome(offset) THEN Unwrap(offset) ELSE 0
        IN  IF island_by_face(p, b) # k \/ other \in comp THEN Ret(p1, "Ok")
            ELSE
            LET kept == [isl EXCEPT !.faces = isl.faces \ comp,
                                    !.root = IF isl.root \in comp THEN other
                                             ELSE isl.root]
                fresh == [root |-> d, faces |-> comp,
                          loc |-> <<isl.loc[1] + shift, isl.loc[2]>>,
                          rot |-> isl.rot]
                islands1 == [j \in IslandKeys(p) \cup {p.next_key} |->
                               IF j = k THEN kept
                               ELSE IF j = p.next_key THEN fresh
                               ELSE p.islands[j]]
            IN  Ret([p1 EXCEPT !.islands = islands1,
                               !.next_key = p.next_key + 1], "Split")

\* edge_join that marks the edge Joined and leaves the two islands apart
edge_join_NoMerge(p, e, priority_face) ==
    IF e \notin Edges \/ (IsSome(priority_face) /\ Unwrap(priority_face) \notin Faces)
    THEN Ret(p, "UnknownKey")
    ELSE IF ~HasTwoFaces(e) \/ p.edges[e] = Joined THEN Ret(p, "InvalidOperation")
    ELSE Ret([p EXCEPT !.edges[e] = Joined], "Merged")

\* Papercraft::edge_join
edge_join(p, e, priority_face) ==
    IF e \notin Edges \/ (IsSome(priority_face) /\ Unwrap(priority_face) \notin Faces)
    THEN Ret(p, "UnknownKey")
    ELSE IF ~HasTwoFaces(e) \/ p.edges[e] = Joined THEN Ret(p, "InvalidOperation")
    ELSE
    LET a == EdgeFaces(e)[1]
        b == EdgeFaces(e)[2]
        ka == island_by_face(p, a)
        kb == island_by_face(p, b)
        p1 == [p EXCEPT !.edges[e] = Joined]
    IN  IF ka = kb THEN Ret(p1, "Ok")
        ELSE
        LET keep == IF IsSome(priority_face) /\ Unwrap(priority_face) \in p.islands[ka].faces
                        THEN ka
                    ELSE IF IsSome(priority_face) /\ Unwrap(priority_face) \in p.islands[kb].faces
                        THEN kb
                    ELSE Min({ka, kb})
            gone == IF keep = ka THEN kb ELSE ka
            merged == [p.islands[keep] EXCEPT
                          !.faces = p.islands[ka].faces \cup p.islands[kb].faces]
            islands1 == [j \in IslandKeys(p) \ {gone} |->
                           IF j = keep THEN merged ELSE p.islands[j]]
        IN  Ret([p1 EXCEPT !.islands = islands1], "Merged")

FlapActions == {"Toggle", "Next", "Hide"}

\* FlapSide after an EdgeToggleFlapAction; a rim edge has only its A side
NextFlapSide(side, action, two) ==
    IF action = "Hide" THEN "None"
    ELSE IF ~two THEN (IF side = "None" THEN "A" ELSE "None")
    ELSE IF action = "Toggle" THEN
        CASE side = "None" -> "A"
          [] side = "A" -> "B"
          [] side = "B" -> "A"
          [] side = "Both" -> "None"
    ELSE
        CASE side = "None" -> "A"
          [] side = "A" -> "B"
          [] side = "B" -> "Both"
          [] side = "Both" -> "None"

\* Papercraft::edge_toggle_flap
edge_toggle_flap(p, e, action) ==
    IF e \notin Edges THEN Ret(p, "UnknownKey")
    ELSE IF ~IsCut(p.edges[e]) THEN Ret(p, "InvalidOperation")
    ELSE Ret([p EXCEPT !.edges[e] =
                 Cut(NextFlapSide(SideOf(p.edges[e]), action, HasTwoFaces(e)))], "Ok")

\* Papercraft::island_by_key_mut
island_by_key_mut(p, k) == IF k \in IslandKeys(p) THEN Some(k) ELSE None

\* Island::translate
translate(isl, delta) ==
    [isl EXCEPT !.loc = <<isl.loc[1] + delta[1], isl.loc[2] + delta[2]>>]

\* a quarter turn of a vector, applied n times
RECURSIVE Turn(_, _)
Turn(v, n) == IF n = 0 THEN v ELSE Turn(<<0 - v[2], v[1]>>, n - 1)

\* Island::rotate: the angle is a number of quarter turns
rotate(isl, angle, center) ==
    LET r == Turn(<<isl.loc[1] - center[1], isl.loc[2] - center[2]>>, angle % 4)
    IN  [isl EXCEPT !.rot = (isl.rot + angle) % 4,
                    !.loc = <<center[1] + r[1], center[2] + r[2]>>]

----------------------------------------------------------------------------
(* pack_islands: shelves of islands inside the content area of each page   *)

BoxW(isl) == island_bounding_box_angle(isl)[2][1] - island_bounding_box_angle(isl)[1][1]
BoxH(isl) == island_bounding_box_angle(isl)[2][2] - island_bounding_box_angle(isl)[1][2]

\* margin is (top, left, right, bottom)
ContentW(o) == o.page_size[1] - o.margin[2] - o.margin[3]
ContentH(o) == o.page_size[2] - o.margin[1] - o.margin[4]

\* bounding-box height descending, then width descending, then key ascending
PackBefore(p, j, k) ==
    LET a == p.islands[j]
        b == p.islands[k]
    IN  \/ BoxH(a) > BoxH(b)
        \/ BoxH(a) = BoxH(b) /\ BoxW(a) > BoxW(b)
        \/ BoxH(a) = BoxH(b) /\ BoxW(a) = BoxW(b) /\ j < k

RECURSIVE PackOrder(_, _)
PackOrder(p, keys) ==
    IF keys = {} THEN <<>>
    ELSE LET k == CHOOSE j \in keys : \A i \in keys \ {j} : PackBefore(p, j, i)
         IN  <<k>> \o PackOrder(p, keys \ {k})

\* rows is the sequence of shelves opened so far: [page, y, h, used];
\* the result maps every key of order to the corner of its slot
RECURSIVE PackPlace(_, _, _, _)
PackPlace(p, order, rows, slots) ==
    IF order = <<>> THEN slots
    ELSE
    LET o == p.options
        k == Head(order)
        w == BoxW(p.islands[k])
        h == BoxH(p.islands[k])
        fits == {i \in 1..Len(rows) : rows[i].used + w <= ContentW(o) /\ h <= rows[i].h}
        lastrow == rows[Len(rows)]
        row == IF fits # {} THEN rows[Min(fits)]
               ELSE IF rows = <<>> THEN [page |-> 0, y |-> 0, h |-> h, used |-> 0]
               ELSE IF lastrow.y + lastrow.h + h <= ContentH(o)
                   THEN [page |-> lastrow.page, y |-> lastrow.y + lastrow.h,
                         h |-> h, used |-> 0]
               ELSE [page |-> lastrow.page + 1, y |-> 0, h |-> h, used |-> 0]
        placed == [row EXCEPT !.used = row.used + w]
        rows1 == IF fits # {} THEN [rows EXCEPT ![Min(fits)] = placed]
                 ELSE Append(rows, placed)
        origin == page_position(o, row.page)
        slot == <<origin[1] + o.margin[2] + row.used, origin[2] + o.margin[1] + row.y>>
    IN  PackPlace(p, Tail(order), rows1, slots @@ (k :> slot))

\* a packing that puts every island into the first slot of the first page
pack_islands_Stacked(p) ==
    [p EXCEPT !.islands = [k \in IslandKeys(p) |->
                              [p.islands[k] EXCEPT !.loc = <<p.options.margin[2],
                                                             p.options.margin[1]>>]]]

\* Papercraft::pack_islands
pack_islands(p) ==
    LET slots == PackPlace(p, PackOrder(p, IslandKeys(p)), <<>>, <<>>)
    IN  [p EXCEPT !.islands = [k \in IslandKeys(p) |->
                                  [p.islands[k] EXCEPT !.loc = slots[k]]]]

\* Papercraft::set_options
set_options(p, options, relocate_pieces) ==
    LET p1 == [p EXCEPT !.options = options]
    IN  IF relocate_pieces THEN pack_islands(p1) ELSE p1

----------------------------------------------------------------------------
(* Import: Papercraft::from_model with the edge states the importer presets *)

RECURSIVE ComponentsOf(_, _)
ComponentsOf(edges, todo) ==
    IF todo = {} THEN <<>>
    ELSE LET c == Component(edges, Min(todo))
         IN  <<c>> \o ComponentsOf(edges, todo \ c)

from_model(joined, hidden, options) ==
    LET edges == [e \in Edges |-> IF e \in joined THEN Joined
                                  ELSE IF e \in hidden THEN Hidden
                                  ELSE Cut("None")]
        comps == ComponentsOf(edges, Faces)
    IN  [edges |-> edges,
         islands |-> [k \in 1..Len(comps) |->
                        [root |-> Min(comps[k]), faces |-> comps[k],
                         loc |-> <<0, 0>>, rot |-> 0]],
         next_key |-> Len(comps) + 1,
         options |-> options]

\* Papercraft::renderable: the projection of the project sent to the client
renderable(p) == [islands |-> p.islands, edges |-> p.edges, options |-> p.options]

----------------------------------------------------------------------------
(* Traversal and perimeter of an island *)

\* the members of a set of numbers in ascending order
RECURSIVE SeqOfSet(_)
SeqOfSet(S) == IF S = {} THEN <<>> ELSE <<Min(S)>> \o SeqOfSet(S \ {Min(S)})

\* a traversal that does not remember the faces it has visited
RECURSIVE TraverseFrom_NoVisited(_, _, _, _, _)
TraverseFrom_NoVisited(p, stack, visited, calls, brk) ==
    IF stack = <<>> \/ Len(calls) >= 2 * Cardinality(Faces) THEN calls
    ELSE IF Head(stack) \in brk THEN Append(calls, Head(stack))
    ELSE TraverseFrom_NoVisited(p,
            SeqOfSet(JoinedNeighbours(p.edges, Head(stack))
                        \ (IF calls = <<>> THEN {} ELSE {calls[Len(calls)]}))
                \o Tail(stack),
            visited, Append(calls, Head(stack)), brk)

\* cb returns Break on the faces of brk.  The result is the sequence of faces
\* cb was called with: depth first from the root over Joined edges,
\* neighbours by ascending FaceIndex, a face already visited is skipped
RECURSIVE TraverseFrom(_, _, _, _, _)
TraverseFrom(p, stack, visited, calls, brk) ==
    IF stack = <<>> THEN calls
    ELSE
    LET f == Head(stack)
    IN  IF f \in visited THEN TraverseFrom(p, Tail(stack), visited, calls, brk)
        ELSE IF f \in brk THEN Append(calls, f)
        ELSE
        TraverseFrom(p, SeqOfSet(JoinedNeighbours(p.edges, f)) \o Tail(stack),
                     visited \cup {f}, Append(calls, f), brk)

\* Papercraft::traverse_faces
traverse_faces(p, k, brk) == TraverseFrom(p, <<p.islands[k].root>>, {}, <<>>, brk)

\* an edge that bounds the island on the side of its face
PerimeterEdge(p, e) == p.edges[e] # Joined \/ ~HasTwoFaces(e)

IndexIn(f, e) == CHOOSE j \in 1..Len(FaceEdges(f)) : FaceEdges(f)[j] = e

\* the edge after e in the winding order of f
NextInFace(f, e) == FaceEdges(f)[(IndexIn(f, e) % Len(FaceEdges(f))) + 1]

Peri(e, f) == [i_edge |-> e, face_sign |-> (EdgeFaces(e)[1] = f)]

\* the next edge of the same face, Joined or not
NextPerimeterEdge_SameFace(p, f, e, fuel) == Peri(e, f)

\* turn around the corner vertex, across Joined edges, to the next perimeter edge
RECURSIVE NextPerimeterEdge(_, _, _, _)
NextPerimeterEdge(p, f, e, fuel) ==
    IF PerimeterEdge(p, e) \/ fuel = 0 THEN Peri(e, f)
    ELSE NextPerimeterEdge(p, Across(f, e), NextInFace(Across(f, e), e), fuel - 1)

PeriNext(p, peri) ==
    LET f == face_by_sign(peri.i_edge, peri.face_sign)
    IN  NextPerimeterEdge(p, f, NextInFace(f, peri.i_edge), Cardinality(Faces))

\* the first perimeter edge of the first face, in traversal order, that has one
PeriStart(p, k) ==
    LET order == traverse_faces(p, k, {})
        with == {i \in 1..Len(order) :
                    \E j \in 1..Len(FaceEdges(order[i])) :
                        PerimeterEdge(p, FaceEdges(order[i])[j])}
    IN  IF with = {} THEN None
        ELSE LET f == order[Min(with)]
                 j == Min({i \in 1..Len(FaceEdges(f)) : PerimeterEdge(p, FaceEdges(f)[i])})
             IN  Some(Peri(FaceEdges(f)[j], f))

\* walk until the starting entry recurs; done is FALSE if it never did
RECURSIVE PeriWalk(_, _, _)
PeriWalk(p, start, acc) ==
    LET next == PeriNext(p, acc[Len(acc)])
    IN  IF next = start THEN [entries |-> acc, done |-> TRUE]
        ELSE IF Len(acc) >= 2 * Cardinality(Edges) THEN [entries |-> acc, done |-> FALSE]
        ELSE PeriWalk(p, start, Append(acc, next))

PerimeterWalk(p, k) ==
    IF p.islands[k].faces = {} \/ ~IsSome(PeriStart(p, k))
    THEN [entries |-> <<>>, done |-> TRUE]
    ELSE PeriWalk(p, Unwrap(PeriStart(p, k)), <<Unwrap(PeriStart(p, k))>>)

\* Papercraft::island_perimeter
island_perimeter(p, k) == PerimeterWalk(p, k).entries

----------------------------------------------------------------------------
(* Model data the exporter reads: materials, textures, fold angles, UVs *)

\* Face::material
FaceMaterial(f) == <<0, 1, 2>>[f + 1]

\* Model::textures: the pixel size of the image of a texture, if it has one
Textures == <<Some(<<2, 2>>), None, Some(<<2, 2>>)>>

\* Edge::angle is negative: a valley fold
AngleNegative(e) == <<FALSE, TRUE, FALSE, FALSE, FALSE, FALSE>>[e + 1]

\* Vertex::uv
VertexUV(v) == <<<<0, 0>>, <<1, 0>>, <<0, 1>>, <<2, 0>>>>[v + 1]

----------------------------------------------------------------------------
(* The texture-matrix solver.  A Matrix3 is its three columns (cgmath is    *)
(* column-major); the solver's result is kept exact as the integer matrix  *)
(* num and the denominator den, M = num / den.                             *)

\* Matrix3::new
Matrix3(c0r0, c0r1, c0r2, c1r0, c1r1, c1r2, c2r0, c2r1, c2r2) ==
    <<<<c0r0, c0r1, c0r2>>, <<c1r0, c1r1, c1r2>>, <<c2r0, c2r1, c2r2>>>>

\* the entry of row r and column c
At3(m, r, c) == m[c][r]

Determinant(m) ==
      At3(m, 1, 1) * (At3(m, 2, 2) * At3(m, 3, 3) - At3(m, 2, 3) * At3(m, 3, 2))
    - At3(m, 1, 2) * (At3(m, 2, 1) * At3(m, 3, 3) - At3(m, 2, 3) * At3(m, 3, 1))
    + At3(m, 1, 3) * (At3(m, 2, 1) * At3(m, 3, 2) - At3(m, 2, 2) * At3(m, 3, 1))

\* the determinant of m without row r and column c
Minor(m, r, c) ==
    LET rs == SelectSeq(<<1, 2, 3>>, LAMBDA i : i # r)
        cs == SelectSeq(<<1, 2, 3>>, LAMBDA j : j # c)
    IN  At3(m, rs[1], cs[1]) * At3(m, rs[2], cs[2]) - At3(m, rs[1], cs[2]) * At3(m, rs[2], cs[1])

\* an adjugate that forgets the transposition
Adjugate_Cofactors(m) ==
    [c \in 1..3 |-> [r \in 1..3 |->
        (IF (r + c) % 2 = 0 THEN 1 ELSE 0 - 1) * Minor(m, r, c)]]

\* the adjugate: entry (r, c) is the cofactor (c, r)
Adjugate(m) ==
    [c \in 1..3 |-> [r \in 1..3 |->
        (IF (r + c) % 2 = 0 THEN 1 ELSE 0 - 1) * Minor(m, c, r)]]

\* Matrix3 * Matrix3
Mul3(a, b) ==
    [c \in 1..3 |-> [r \in 1..3 |->
        At3(a, r, 1) * At3(b, 1, c) + At3(a, r, 2) * At3(b, 2, c) + At3(a, r, 3) * At3(b, 3, c)]]

\* SquareMatrix::invert: None for a singular matrix
invert(m) ==
    IF Determinant(m) = 0 THEN None
    ELSE Some([num |-> Adjugate(m), den |-> Determinant(m)])

\* calc_texture_matrix: M = P * U^-1
calc_texture_matrix(uvs, pts) ==
    LET u_mat == Matrix3(uvs[1][1], uvs[1][2], 1, uvs[2][1], uvs[2][2], 1,
                         uvs[3][1], uvs[3][2], 1)
        p_mat == Matrix3(pts[1][1], pts[1][2], 1, pts[2][1], pts[2][2], 1,
                         pts[3][1], pts[3][2], 1)
        u_inv == invert(u_mat)
    IN  IF IsSome(u_inv)
        THEN Some([num |-> Mul3(p_mat, Unwrap(u_inv).num), den |-> Unwrap(u_inv).den])
        ELSE None

\* the UVs in pixels, V flipped
PixelUVs(uvs, w, h) == [i \in 1..3 |-> <<uvs[i][1] * w, (1 - uvs[i][2]) * h>>]

\* calc_svg_texture_matrix_triangle returns Some
SvgMatrixIsSome(uvs, tex_width, tex_height) ==
    /\ ~(tex_width = 0 \/ tex_height = 0)
    /\ IsSome(calc_texture_matrix(PixelUVs(uvs, tex_width, tex_height),
                                  <<<<0, 0>>, <<0, 0>>, <<0, 0>>>>))

\* calc_svg_texture_matrix_triangle: the matrix of the UVs in pixels; where
\* |m.x.x| and |m.y.y| are both below 0.0001 the two entries are replaced
\* by 0.00012 (nudged), the other entries stay num / den
calc_svg_texture_matrix_triangle(uvs, pts, tex_width, tex_height) ==
    IF tex_width = 0 \/ tex_height = 0 THEN None
    ELSE LET res == calc_texture_matrix(PixelUVs(uvs, tex_width, tex_height), pts)
             Small(n, den) ==
                 (IF n < 0 THEN 0 - n ELSE n) * 10000 < (IF den < 0 THEN 0 - den ELSE den)
         IN  IF IsSome(res)
             THEN Some([num |-> Unwrap(res).num, den |-> Unwrap(res).den,
                        nudged |-> /\ Small(At3(Unwrap(res).num, 1, 1), Unwrap(res).den)
                                   /\ Small(At3(Unwrap(res).num, 2, 2), Unwrap(res).den)])
             ELSE None

\* calc_pdf_texture_matrix_triangle returns Some
PdfMatrixIsSome(uvs) ==
    IsSome(calc_texture_matrix(uvs, <<<<0, 0>>, <<0, 0>>, <<0, 0>>>>))

\* triangulate_polygon: a fan, as 1-based positions
triangulate_polygon(vertex_count) ==
    IF vertex_count < 3 THEN <<>>
    ELSE [i \in 1..(vertex_count - 2) |-> <<1, i + 1, i + 2>>]

----------------------------------------------------------------------------
(* vector_export.rs: what the exporter collects for one page.  A point of  *)
(* the layout is kept symbolic: vertex v as placed by the matrix of face f *)
(* of island k, minus the offset of the page.                              *)

\* an owner test that looks at the column only
OwnerPage_ColumnOnly(o, isl) ==
    global_to_page(o, BoxCenter(island_bounding_box_angle(isl))).col

\* (po.row as u32) * page_cols.max(1) + (po.col as u32).  A release build
\* computes it modulo 2^32, which is row * cols + col when that is not
\* negative; a negative value here stands for that value plus 2^32, which is
\* the index of no page.  A debug build panics where the arithmetic wraps.
OwnerPage(o, isl) ==
    LET po == global_to_page(o, BoxCenter(island_bounding_box_angle(isl)))
    IN  po.row * MaxU(o.page_cols, 1) + po.col

\* Papercraft::islands: the islands in the order of the registry
islands(p) == SeqOfSet(IslandKeys(p))

RECURSIVE Concat(_)
Concat(ss) == IF ss = <<>> THEN <<>> ELSE Head(ss) \o Concat(Tail(ss))

\* the islands the loop over papercraft.islands() does not skip
OwnedIslands(p, o, page) ==
    SelectSeq(islands(p), LAMBDA k : OwnerPage(o, p.islands[k]) = page)

Point(k, f, v, offset) == [island |-> k, face |-> f, vertex |-> v, offset |-> offset]

\* a callback that takes the texture of the material whether or not it has
\* pixel data
CollectFaces_AnyTexture(k, calls, offset) ==
    [i \in 1..Len(calls) |->
        [island |-> k, face |-> calls[i],
         vertices |-> [j \in 1..Len(FaceVerts(calls[i])) |->
                          Point(k, calls[i], FaceVerts(calls[i])[j], offset)],
         texture_idx |-> Some(FaceMaterial(calls[i]))]]

\* step 2: one entry per call of the callback of traverse_faces; the texture
\* index is Some only if the texture of the material has pixel data
CollectFaces(k, calls, offset) ==
    [i \in 1..Len(calls) |->
        [island |-> k, face |-> calls[i],
         vertices |-> [j \in 1..Len(FaceVerts(calls[i])) |->
                          Point(k, calls[i], FaceVerts(calls[i])[j], offset)],
         texture_idx |->
            IF /\ FaceMaterial(calls[i]) + 1 \in DOMAIN Textures
               /\ IsSome(Textures[FaceMaterial(calls[i]) + 1])
            THEN Some(FaceMaterial(calls[i])) ELSE None]]

\* step 3: the contour of the island, the first vertex of every perimeter entry
CollectCutPath(k, perimeter, offset) ==
    [i \in 1..Len(perimeter) |->
        LET f == face_by_sign(perimeter[i].i_edge, perimeter[i].face_sign)
        IN  Point(k, f, vertices_of_edge(f, perimeter[i].i_edge)[1], offset)]

\* step 4 of write_svg_layers: Joined edges, seen from a face below f_b
SvgFoldEdges(p, f) ==
    SelectSeq(FaceEdges(f), LAMBDA e :
        /\ p.edges[e] = Joined
        /\ HasTwoFaces(e)
        /\ ~(f > EdgeFaces(e)[2])
        /\ ~(f = EdgeFaces(e)[2]))

\* the fold pass of generate_pdf_page_ops: Joined edges, seen from a face
\* not above f_b
PdfFoldEdges(p, f) ==
    SelectSeq(FaceEdges(f), LAMBDA e :
        /\ p.edges[e] = Joined
        /\ HasTwoFaces(e)
        /\ ~(f > EdgeFaces(e)[2]))

\* the fold lines of an island in the order of the traversal: the two ends
\* of the edge as its face places them, a valley if the angle is negative
CollectFolds(p, k, calls, offset, svg) ==
    Concat([i \in 1..Len(calls) |->
        LET es == IF svg THEN SvgFoldEdges(p, calls[i]) ELSE PdfFoldEdges(p, calls[i])
        IN  [j \in 1..Len(es) |->
                [edge |-> es[j],
                 p0 |-> Point(k, calls[i], vertices_of_edge(calls[i], es[j])[1], offset),
                 p1 |-> Point(k, calls[i], vertices_of_edge(calls[i], es[j])[2], offset),
                 valley |-> AngleNegative(es[j])]]])

\* step 5: the polygon p0, p1, f1, f0 of the perimeter entries that are Cut
\* with a visible side; f1 and f0 lie the flap width off the edge
CollectFlaps(p, k, perimeter, offset) ==
    IF p.options.flap_style = "None" THEN <<>>
    ELSE
    LET shown == SelectSeq(perimeter, LAMBDA peri :
                    /\ IsCut(p.edges[peri.i_edge])
                    /\ flap_visible(SideOf(p.edges[peri.i_edge]), peri.face_sign))
    IN  [i \in 1..Len(shown) |->
            LET f == face_by_sign(shown[i].i_edge, shown[i].face_sign)
                p0 == Point(k, f, vertices_of_edge(f, shown[i].i_edge)[1], offset)
                p1 == Point(k, f, vertices_of_edge(f, shown[i].i_edge)[2], offset)
            IN  <<p0, p1, [flap_at |-> p1, towards |-> p0, edge |-> shown[i].i_edge],
                  [flap_at |-> p0, towards |-> p1, edge |-> shown[i].i_edge]>>]

\* PaperOptions::is_in_page_fn: the position lies on the sheet of the page
is_in_page(o, page, pos) ==
    LET origin == page_position(o, page)
    IN  /\ origin[1] <= pos[1] /\ pos[1] < origin[1] + o.page_size[1]
        /\ origin[2] <= pos[2] /\ pos[2] < origin[2] + o.page_size[2]

\* collect_texts: signature, page number, island names
collect_texts(p, o, page) ==
    LET named == SelectSeq(islands(p), LAMBDA k : is_in_page(o, page, p.islands[k].loc))
    IN  (IF o.show_self_promotion THEN <<[text |-> <<"signature">>, align |-> "Near"]>>
         ELSE <<>>)
        \o (IF o.show_page_number
            THEN <<[text |-> <<"Page", page + 1, o.pages>>, align |-> "Far"]>>
            ELSE <<>>)
        \o (IF o.edge_id_position # "None"
            THEN [i \in 1..Len(named) |-> [text |-> <<"island", named[i]>>, align |-> "Center"]]
            ELSE <<>>)

----------------------------------------------------------------------------
(* SVG *)

\* write_svg_defs: one <image id="tex_i"> per texture with pixel data, and
\* the dimensions of every texture
write_svg_defs(p) ==
    LET with_pixbuf == SelectSeq([i \in 1..Len(Textures) |-> i - 1],
                                 LAMBDA i : IsSome(Textures[i + 1]))
    IN  [images |-> [j \in 1..Len(with_pixbuf) |->
                        [tag |-> "image", id |-> <<"tex", with_pixbuf[j]>>,
                         size |-> Unwrap(Textures[with_pixbuf[j] + 1]),
                         href |-> "data:image/png;base64"]],
         tex_dimensions |-> [i \in 1..Len(Textures) |->
                                IF IsSome(Textures[i]) THEN Unwrap(Textures[i])
                                ELSE <<0, 0>>]]

\* a layer group: its id attribute is its label
Layer(label, elements) ==
    [tag |-> "g", label |-> label, id |-> <<label>>, elements |-> elements]

\* the elements of one entry of faces_data; idx counts from 0
SvgFace(fd, idx, with_textures, tex_dimensions) ==
    IF Len(fd.vertices) < 3 THEN <<>>
    ELSE IF with_textures /\ IsSome(fd.texture_idx)
    THEN LET tex_idx == Unwrap(fd.texture_idx)
             dims == IF tex_idx + 1 \in DOMAIN tex_dimensions
                     THEN tex_dimensions[tex_idx + 1] ELSE <<1, 1>>
             face_uvs == [j \in 1..Len(FaceVerts(fd.face)) |-> VertexUV(FaceVerts(fd.face)[j])]
             triangles == triangulate_polygon(Len(fd.vertices))
         IN  Concat([t \in 1..Len(triangles) |->
                LET tri_pts == [j \in 1..3 |-> fd.vertices[triangles[t][j]]]
                    tri_uvs == [j \in 1..3 |-> face_uvs[triangles[t][j]]]
                IN  IF SvgMatrixIsSome(tri_uvs, dims[1], dims[2])
                    THEN <<[tag |-> "pattern", id |-> <<"pat_face", idx, t - 1>>,
                            size |-> dims, uvs |-> tri_uvs, pts |-> tri_pts,
                            use |-> <<"tex", tex_idx>>],
                           [tag |-> "polygon", id |-> <<>>,
                            fill |-> <<"url", <<"pat_face", idx, t - 1>>>>,
                            points |-> tri_pts]>>
                    ELSE <<>>])
    ELSE <<[tag |-> "polygon", id |-> <<"face", idx>>, fill |-> <<"paper_color">>,
            points |-> fd.vertices]>>

\* write_svg_layers: the layers of one page, in the order they are written
write_svg_layers(p, page, with_textures, tex_dimensions) ==
    LET o == p.options
        offset == page_position(o, page)
        owned == OwnedIslands(p, o, page)
        faces_data == Concat([i \in 1..Len(owned) |->
                        CollectFaces(owned[i], traverse_faces(p, owned[i], {}), offset)])
        cut_paths == SelectSeq([i \in 1..Len(owned) |->
                        CollectCutPath(owned[i], island_perimeter(p, owned[i]), offset)],
                        LAMBDA c : c # <<>>)
        folds == Concat([i \in 1..Len(owned) |->
                    CollectFolds(p, owned[i], traverse_faces(p, owned[i], {}), offset, TRUE)])
        flap_polygons == Concat([i \in 1..Len(owned) |->
                    CollectFlaps(p, owned[i], island_perimeter(p, owned[i]), offset)])
        texts == collect_texts(p, o, page)
        Lines(id, lines) ==
            [i \in 1..Len(lines) |->
                [tag |-> "line", id |-> <<id, i - 1>>, edge |-> lines[i].edge,
                 p0 |-> lines[i].p0, p1 |-> lines[i].p1]]
    IN  <<Layer("Faces", Concat([i \in 1..Len(faces_data) |->
                    SvgFace(faces_data[i], i - 1, with_textures, tex_dimensions)]))>>
        \o (IF flap_polygons # <<>>
            THEN <<Layer("Flaps", [i \in 1..Len(flap_polygons) |->
                        [tag |-> "polygon", id |-> <<"flap", i - 1>>,
                         fill |-> <<"#E0E0E0">>, points |-> flap_polygons[i]]])>>
            ELSE <<>>)
        \o (IF o.fold_style # "None"
            THEN <<Layer("Fold",
                    <<Layer("Mountain", Lines("mountain", SelectSeq(folds, LAMBDA l : ~l.valley))),
                      Layer("Valley", Lines("valley", SelectSeq(folds, LAMBDA l : l.valley)))>>)>>
            ELSE <<>>)
        \o <<Layer("Cut", [i \in 1..Len(cut_paths) |->
                    [tag |-> "path", id |-> <<"cut", i - 1>>, closed |-> TRUE,
                     points |-> cut_paths[i]]])>>
        \o (IF texts # <<>>
            THEN <<Layer("Text", [i \in 1..Len(texts) |->
                        [tag |-> "text", text |-> texts[i].text, align |-> texts[i].align]])>>
            ELSE <<>>)

\* write_svg_multipage: <defs>, one <inkscape:page> and one group per page
write_svg_multipage(p, with_textures) ==
    LET o == p.options
        page_count == o.pages
        defs == write_svg_defs(p)
    IN  [format |-> "svg",
         defs |-> IF with_textures THEN Some(defs.images) ELSE None,
         namedview |-> [i \in 1..page_count |->
                          [tag |-> "inkscape:page", xy |-> page_position(o, i - 1),
                           size |-> o.page_size, id |-> <<"Page", i>>]],
         groups |-> [i \in 1..page_count |->
                       [tag |-> "g", label |-> <<"Page", i>>, id |-> <<"page", i>>,
                        translate |-> page_position(o, i - 1),
                        layers |-> write_svg_layers(p, i - 1, with_textures,
                                      IF with_textures THEN defs.tex_dimensions ELSE <<>>)]]]

----------------------------------------------------------------------------
(* PDF *)

Op(op, args) == [op |-> op, args |-> args]

\* a widening that also adds a page
WidenedOptions_AddsPage(p) ==
    LET o == p.options
        cols == {BoxCenter(island_bounding_box_angle(p.islands[k]))[1]
                    \div (o.page_size[1] + PAGE_SEP) : k \in IslandKeys(p)}
        max_col == IF cols = {} THEN 0 ELSE Max(cols)
    IN  IF max_col >= o.page_cols
        THEN [o EXCEPT !.page_cols = max_col + 1, !.pages = o.pages + 1]
        ELSE o

\* generate_pdf: the options with page_cols widened to the largest column
\* of a bounding-box center; `as i32` truncates the quotient towards zero
WidenedOptions(p) ==
    LET o == p.options
        Col(x) == IF x >= 0 THEN x \div (o.page_size[1] + PAGE_SEP)
                  ELSE 0 - ((0 - x) \div (o.page_size[1] + PAGE_SEP))
        cols == {Col(BoxCenter(island_bounding_box_angle(p.islands[k]))[1]) :
                    k \in IslandKeys(p)}
        max_col == IF cols = {} THEN 0 ELSE Max(cols)
    IN  IF max_col >= o.page_cols THEN [o EXCEPT !.page_cols = max_col + 1] ELSE o

\* embed_pdf_textures: image and pattern object per texture with pixel data,
\* a placeholder with object id 0 otherwise
embed_pdf_textures(p) ==
    [i \in 1..Len(Textures) |->
        IF IsSome(Textures[i])
        THEN [image_id |-> 2 * i, pattern_id |-> 2 * i + 1, size |-> Unwrap(Textures[i])]
        ELSE [image_id |-> 0, pattern_id |-> 0, size |-> <<0, 0>>]]

\* a path through the points: m, then l
PathOps(points) ==
    [i \in 1..Len(points) |-> Op(IF i = 1 THEN "m" ELSE "l", <<points[i]>>)]

\* the closures mm_to_pt and pdf_y; 72 / 25.4 = 360 / 127, and a length in
\* points is kept as its multiple of 1/127 pt
mm_to_pt(mm) == mm * 360

pdf_y(page_height, y) == (page_height - y) * 360

\* a cm operand that does not flip Y
PdfCm_NoFlip(tex_matrix, page_height) ==
    [a |-> At3(tex_matrix.num, 1, 1) * 360,
     b |-> At3(tex_matrix.num, 2, 1) * 360,
     c |-> At3(tex_matrix.num, 1, 2) * 360,
     d |-> At3(tex_matrix.num, 2, 2) * 360,
     e |-> At3(tex_matrix.num, 1, 3) * 360,
     f |-> (page_height * tex_matrix.den - At3(tex_matrix.num, 2, 3)) * 360,
     den |-> tex_matrix.den]

\* the operands a_pt .. f_pt of cm, each over the denominator of the matrix
PdfCm(tex_matrix, page_height) ==
    [a |-> At3(tex_matrix.num, 1, 1) * 360,
     b |-> (0 - At3(tex_matrix.num, 2, 1)) * 360,
     c |-> At3(tex_matrix.num, 1, 2) * 360,
     d |-> (0 - At3(tex_matrix.num, 2, 2)) * 360,
     e |-> At3(tex_matrix.num, 1, 3) * 360,
     f |-> (page_height * tex_matrix.den - At3(tex_matrix.num, 2, 3)) * 360,
     den |-> tex_matrix.den]

\* one textured triangle: skipped if the matrix is None; the path of the
\* triangle is in UV space
PdfTriangle(tri_uvs, tri_pts, material_idx) ==
    IF PdfMatrixIsSome(tri_uvs)
    THEN <<Op("q", <<>>), Op("cm", <<tri_uvs, tri_pts>>),
           Op("cs", <<"Pattern">>), Op("scn", <<<<"Pat", material_idx>>>>)>>
         \o PathOps([j \in 1..3 |-> [uv |-> tri_uvs[j]]])
         \o <<Op("f", <<>>), Op("Q", <<>>)>>
    ELSE <<>>

\* the textured triangles of a face
PdfTexture(face, vertices, material_idx) ==
    LET uvs == [j \in 1..Len(FaceVerts(face)) |-> VertexUV(FaceVerts(face)[j])]
        triangles == triangulate_polygon(Len(vertices))
    IN  IF Len(uvs) < 3 THEN <<>>
        ELSE Concat([t \in 1..Len(triangles) |->
                PdfTriangle([j \in 1..3 |-> uvs[triangles[t][j]]],
                            [j \in 1..3 |-> vertices[triangles[t][j]]], material_idx)])

\* a pass 1 that takes every texture slot as a texture, placeholders included
PdfFace_AnySlot(k, face, offset, with_textures, texture_xobjects) ==
    LET vertices == [j \in 1..Len(FaceVerts(face)) |->
                        Point(k, face, FaceVerts(face)[j], offset)]
        material_idx == FaceMaterial(face)
        has_texture == /\ with_textures
                       /\ material_idx + 1 \in DOMAIN texture_xobjects
    IN  IF Len(vertices) < 3 THEN <<>>
        ELSE <<Op("rg", <<"paper_color">>)>> \o PathOps(vertices) \o <<Op("f", <<>>)>>
             \o (IF has_texture THEN PdfTexture(face, vertices, material_idx) ELSE <<>>)

\* pass 1 of generate_pdf_page_ops for one call of the callback
PdfFace(k, face, offset, with_textures, texture_xobjects) ==
    LET vertices == [j \in 1..Len(FaceVerts(face)) |->
                        Point(k, face, FaceVerts(face)[j], offset)]
        material_idx == FaceMaterial(face)
        has_texture == /\ with_textures
                       /\ material_idx + 1 \in DOMAIN texture_xobjects
                       /\ texture_xobjects[material_idx + 1].image_id # 0
    IN  IF Len(vertices) < 3 THEN <<>>
        ELSE <<Op("rg", <<"paper_color">>)>> \o PathOps(vertices) \o <<Op("f", <<>>)>>
             \o (IF has_texture THEN PdfTexture(face, vertices, material_idx) ELSE <<>>)

\* pass 2 for one island: folds, flaps, perimeter
PdfLines(o, folds, flaps, contour) ==
    (IF o.fold_style # "None"
     THEN Concat([i \in 1..Len(folds) |->
                    <<Op("d", <<IF folds[i].valley THEN "dashed" ELSE "solid">>),
                      Op("m", <<folds[i].p0>>), Op("l", <<folds[i].p1>>),
                      Op("S", <<>>)>>])
          \o <<Op("d", <<"solid">>)>>
     ELSE <<>>)
    \o Concat([i \in 1..Len(flaps) |->
            <<Op("rg", <<"flap_fill">>)>>
            \o PathOps(<<flaps[i][1], flaps[i][2], flaps[i][3], flaps[i][4]>>)
            \o <<Op("f", <<>>), Op("w", <<2>>)>>
            \o PathOps(<<flaps[i][1], flaps[i][4], flaps[i][3], flaps[i][2]>>)
            \o <<Op("S", <<>>)>>])
    \o (IF contour # <<>> THEN PathOps(contour) \o <<Op("s", <<>>)>> ELSE <<>>)

\* generate_pdf_page_ops; line widths are in tenths of a point
generate_pdf_page_ops(p, o, page, with_textures, texture_xobjects) ==
    LET offset == page_position(o, page)
        owned == OwnedIslands(p, o, page)
        texts == collect_texts(p, o, page)
        Calls(k) == traverse_faces(p, k, {})
    IN  Concat([i \in 1..Len(owned) |->
            Concat([j \in 1..Len(Calls(owned[i])) |->
                PdfFace(owned[i], Calls(owned[i])[j], offset, with_textures,
                        texture_xobjects)])])
        \o <<Op("RG", <<"black">>), Op("w", <<5>>)>>
        \o Concat([i \in 1..Len(owned) |->
                PdfLines(o,
                         CollectFolds(p, owned[i], Calls(owned[i]), offset, FALSE),
                         CollectFlaps(p, owned[i], island_perimeter(p, owned[i]), offset),
                         CollectCutPath(owned[i], island_perimeter(p, owned[i]), offset))])
        \o (IF texts # <<>>
            THEN <<Op("BT", <<>>)>>
                 \o Concat([i \in 1..Len(texts) |->
                        <<Op("Tf", <<"F1">>), Op("Tm", <<texts[i].align>>),
                          Op("Tj", <<texts[i].text>>)>>])
                 \o <<Op("ET", <<>>)>>
            ELSE <<>>)

\* generate_pdf: one Page object per page of the loop, /Count is their number
generate_pdf(p, with_textures) ==
    LET options == WidenedOptions(p)
        page_count == options.pages
        texture_xobjects == IF with_textures THEN embed_pdf_textures(p) ELSE <<>>
        pages == [i \in 1..page_count |->
                    [type |-> "Page",
                     contents |-> generate_pdf_page_ops(p, options, i - 1, with_textures,
                                                        texture_xobjects),
                     patterns |-> {<<"Pat", j - 1>> : j \in {h \in 1..Len(texture_xobjects) :
                                        texture_xobjects[h].pattern_id # 0}}]]
    IN  [format |-> "pdf", kids |-> pages, count |-> Len(pages),
         media_box |-> options.page_size]

----------------------------------------------------------------------------
(* Inputs *)

OptionsA == [page_size |-> <<100, 80>>, margin |-> <<5, 5, 5, 5>>,
             pages |-> 1, page_cols |-> 1,
             flap_style |-> "Textured", fold_style |-> "Full",
             show_self_promotion |-> FALSE, show_page_number |-> TRUE,
             edge_id_position |-> "None"]
OptionsB == [page_size |-> <<50, 40>>, margin |-> <<5, 5, 5, 5>>,
             pages |-> 2, page_cols |-> 2,
             flap_style |-> "None", fold_style |-> "None",
             show_self_promotion |-> FALSE, show_page_number |-> FALSE,
             edge_id_position |-> "None"]
\* a column of two sheets
OptionsC == [page_size |-> <<50, 40>>, margin |-> <<5, 5, 5, 5>>,
             pages |-> 2, page_cols |-> 1,
             flap_style |-> "White", fold_style |-> "Full",
             show_self_promotion |-> FALSE, show_page_number |-> FALSE,
             edge_id_position |-> "Outside"]
OptionInputs == {OptionsA, OptionsB, OptionsC}

Spokes == {e \in Edges : HasTwoFaces(e)}

\* what the importer hands over: joined spokes, hidden edges
ImportInputs ==
    {from_model({}, {}, OptionsA), from_model({0, 1}, {5}, OptionsA),
     from_model({0, 1, 2}, {}, OptionsB)}

\* an edge index, a face index and island keys that may or may not exist
EdgeInputs == Edges \cup {Cardinality(Edges)}
FaceInputs == Faces \cup {Cardinality(Faces)}
KeyInputs == 1..(Cardinality(Faces) + 1)
OffsetInputs == {None, Some(5), Some(0 - 5)}
PriorityInputs == {None} \cup {Some(f) : f \in FaceInputs}
\* client file names and the bytes of an upload
FileNames == {"model.obj", "b.obj"}
FileData == {"strip", "ring", "bad"}

DeltaInputs == {<<7, 0>>, <<60, 0>>}
AngleInputs == {1}
CenterInputs == {<<0, 0>>}

----------------------------------------------------------------------------
(* The request handlers of main.rs, one request at a time *)

\* the MoveIsland and RotateIsland arms of perform_action
MoveOrRotate(p, action) ==
    IF ~IsSome(island_by_key_mut(p, action.island)) THEN Ret(p, "UnknownKey")
    ELSE IF action.type = "MoveIsland"
        THEN Ret([p EXCEPT !.islands[action.island] = translate(@, action.delta)], "Ok")
    ELSE Ret([p EXCEPT !.islands[action.island] =
                 rotate(@, action.angle, action.center)], "Ok")

\* the Cut arm calls edge_join
ApplyAction_CutCallsJoin(p, action) ==
    CASE action.type = "ToggleFlap" -> edge_toggle_flap(p, action.edge, action.action)
      [] action.type = "Cut" -> edge_join(p, action.edge, None)
      [] action.type = "Join" -> edge_join(p, action.edge, action.priority_face)
      [] action.type \in {"MoveIsland", "RotateIsland"} -> MoveOrRotate(p, action)
      [] action.type = "SetOptions" ->
            Ret(set_options(p, action.options, action.relocate_pieces), "Ok")
      [] action.type = "PackIslands" -> Ret(pack_islands(p), "Ok")

\* the Join arm drops priority_face
ApplyAction_JoinDropsPriority(p, action) ==
    CASE action.type = "ToggleFlap" -> edge_toggle_flap(p, action.edge, action.action)
      [] action.type = "Cut" -> edge_cut(p, action.edge, action.offset)
      [] action.type = "Join" -> edge_join(p, action.edge, None)
      [] action.type \in {"MoveIsland", "RotateIsland"} -> MoveOrRotate(p, action)
      [] action.type = "SetOptions" ->
            Ret(set_options(p, action.options, action.relocate_pieces), "Ok")
      [] action.type = "PackIslands" -> Ret(pack_islands(p), "Ok")

\* the match of perform_action: the value the engine returns is dropped
ApplyAction(p, action) ==
    CASE action.type = "ToggleFlap" -> edge_toggle_flap(p, action.edge, action.action)
      [] action.type = "Cut" -> edge_cut(p, action.edge, action.offset)
      [] action.type = "Join" -> edge_join(p, action.edge, action.priority_face)
      [] action.type \in {"MoveIsland", "RotateIsland"} -> MoveOrRotate(p, action)
      [] action.type = "SetOptions" ->
            Ret(set_options(p, action.options, action.relocate_pieces), "Ok")
      [] action.type = "PackIslands" -> Ret(pack_islands(p), "Ok")

OkResponse(p) == [status |-> 200, body |-> Some(renderable(p))]
ErrResponse(code) == [status |-> code, body |-> None]

\* perform_action
perform_action(state, action) ==
    IF IsSome(state)
    THEN LET r == ApplyAction(Unwrap(state), action)
         IN  [state |-> Some(r.project), response |-> OkResponse(r.project),
              result |-> r.result]
    ELSE [state |-> state, response |-> ErrResponse(404), result |-> "NoProject"]

PerformAction(action) ==
    /\ nops < MaxOps
    /\ LET r == perform_action(project, action)
       IN  /\ project' = r.state
           /\ response' = r.response
           /\ last' = [type |-> action.type, result |-> r.result]
    /\ nops' = nops + 1
    /\ UNCHANGED httpvars

ToggleFlapAction(edge, action) == [type |-> "ToggleFlap", edge |-> edge, action |-> action]
CutAction(edge, offset) == [type |-> "Cut", edge |-> edge, offset |-> offset]
JoinAction(edge, pf) == [type |-> "Join", edge |-> edge, priority_face |-> pf]
MoveIslandAction(k, delta) == [type |-> "MoveIsland", island |-> k, delta |-> delta]
RotateIslandAction(k, angle, center) ==
    [type |-> "RotateIsland", island |-> k, angle |-> angle, center |-> center]
SetOptionsAction(o, relocate) ==
    [type |-> "SetOptions", options |-> o, relocate_pieces |-> relocate]
PackIslandsAction == [type |-> "PackIslands"]

ToggleFlap == \E e \in EdgeInputs, a \in FlapActions : PerformAction(ToggleFlapAction(e, a))
CutEdge == \E e \in EdgeInputs, o \in OffsetInputs : PerformAction(CutAction(e, o))
JoinEdge == \E e \in EdgeInputs, f \in PriorityInputs : PerformAction(JoinAction(e, f))
MoveIsland == \E k \in KeyInputs, d \in DeltaInputs : PerformAction(MoveIslandAction(k, d))
RotateIsland ==
    \E k \in KeyInputs, a \in AngleInputs, c \in CenterInputs :
        PerformAction(RotateIslandAction(k, a, c))
SetOptions ==
    \E o \in OptionInputs, r \in BOOLEAN : PerformAction(SetOptionsAction(o, r))
PackIslands == PerformAction(PackIslandsAction)

\* get_project
get_project(state) ==
    IF IsSome(state) THEN OkResponse(Unwrap(state)) ELSE ErrResponse(404)

\* the query of /api/export and the with_textures argument of the generators
ExportParams(format, with_textures) == [format |-> format, with_textures |-> with_textures]
ExportInputs ==
    {ExportParams(f, t) : f \in {"svg", "pdf"}, t \in BOOLEAN}
        \cup {ExportParams("png", FALSE)}

\* export_file, without a page number
export_file(state, params) ==
    IF ~IsSome(state) THEN ErrResponse(404)
    ELSE IF params.format = "svg"
    THEN [status |-> 200,
          body |-> Some(write_svg_multipage(Unwrap(state), params.with_textures))]
    ELSE IF params.format = "pdf"
    THEN [status |-> 200, body |-> Some(generate_pdf(Unwrap(state), params.with_textures))]
    ELSE ErrResponse(400)

GetProject ==
    /\ nops < MaxOps
    /\ response' = get_project(project)
    /\ last' = [type |-> "GetProject", result |-> "Ok"]
    /\ nops' = nops + 1
    /\ UNCHANGED <<project, httpvars>>

ExportFile ==
    /\ nops < MaxOps
    /\ \E params \in ExportInputs :
          /\ response' = export_file(project, params)
          /\ last' = [type |-> "Export", result |-> "Ok", params |-> params]
    /\ nops' = nops + 1
    /\ UNCHANGED <<project, httpvars>>

\* no triangle is being solved
NoTriangle == [uvs |-> <<>>, pts |-> <<>>, done |-> TRUE, matrix |-> None,
               svg |-> FALSE, ops |-> <<>>, page_height |-> 0, tex |-> <<0, 0>>,
               cm |-> None, pattern |-> None]

\* serve: the state starts with the default model when it can be imported
Init ==
    /\ project \in {None} \cup {Some(p) : p \in ImportInputs}
    /\ response = ErrResponse(0)
    /\ last = [type |-> "None", result |-> "None"]
    /\ nops = 0
    /\ handlers = <<>>
    /\ temp_dir = [n \in FileNames |-> None]
    /\ boot = project
    /\ solved = NoTriangle

Next ==
    \/ ToggleFlap
    \/ CutEdge
    \/ JoinEdge
    \/ MoveIsland
    \/ RotateIsland
    \/ SetOptions
    \/ PackIslands
    \/ GetProject
    \/ ExportFile

Spec == Init /\ [][Next]_vars

----------------------------------------------------------------------------
(* The texture-matrix solver on its own: a triangle of UVs and the triangle *)
(* of layout points it is to be mapped to                                  *)

UVInputs ==
    {<<a, b, c>> : a, b, c \in (0..UVMax) \X (0..UVMax)}

PtsInputs ==
    {<<<<0, 0>>, <<4, 0>>, <<0, 3>>>>,
     <<<<5, 1>>, <<0 - 2, 7>>, <<3, 3>>>>,
     <<<<1, 1>>, <<1, 1>>, <<6, 2>>>>}

\* the height of the sheet in mm, and the width and height of the texture in
\* pixels: one without pixels, a small and a large one
HeightInputs == {40, 80}
TexInputs == {<<0, 2>>, <<2, 2>>, <<100, 100>>}

InitSolver ==
    /\ project = None
    /\ response = ErrResponse(0)
    /\ last = [type |-> "None", result |-> "None"]
    /\ nops = 0
    /\ handlers = <<>>
    /\ temp_dir = [n \in FileNames |-> None]
    /\ boot = project
    /\ solved \in {[NoTriangle EXCEPT !.uvs = uvs, !.pts = pts, !.done = FALSE,
                                      !.page_height = h, !.tex = tex] :
                       uvs \in UVInputs, pts \in PtsInputs,
                       h \in HeightInputs, tex \in TexInputs}

\* the exporters solve for the matrix of a triangle and emit the triangle
SolveTriangle ==
    /\ ~solved.done
    /\ solved' = [solved EXCEPT
                    !.done = TRUE,
                    !.matrix = calc_texture_matrix(solved.uvs, solved.pts),
                    !.svg = SvgMatrixIsSome(solved.uvs, 2, 2),
                    !.ops = PdfTriangle(solved.uvs, solved.pts, 0),
                    !.cm = IF IsSome(calc_texture_matrix(solved.uvs, solved.pts))
                           THEN Some(PdfCm(Unwrap(calc_texture_matrix(solved.uvs, solved.pts)),
                                           solved.page_height))
                           ELSE None,
                    !.pattern = calc_svg_texture_matrix_triangle(
                                    solved.uvs, solved.pts, solved.tex[1], solved.tex[2])]
    /\ UNCHANGED <<project, response, last, nops, handlers, temp_dir, boot>>

SpecSolver == InitSolver /\ [][SolveTriangle]_vars

----------------------------------------------------------------------------
(* The request handlers of main.rs as concurrent tasks: a handler takes    *)
(* the mutex of the state for one step; the steps of an upload before the  *)
(* lock run without it                                                     *)

\* paper::import::import_model_file: the project of the bytes of the file
import_model_file(file) ==
    IF file = Some("strip") THEN Some(from_model({0, 1}, {5}, OptionsA))
    ELSE IF file = Some("ring") THEN Some(from_model({0, 1, 2}, {}, OptionsB))
    ELSE None

NoAction == [type |-> "None"]

Request(kind, name, file_name, data, action) ==
    [kind |-> kind, name |-> name, file_name |-> file_name, data |-> data,
     action |-> action]

UploadRequest(name, file_name, data) == Request("Upload", name, file_name, data, NoAction)
ActionRequest(action) == Request("Action", "", "", "", action)
PlainRequest(kind) == Request(kind, "", "", "", NoAction)

HttpActionInputs ==
    {CutAction(0, None), JoinAction(0, None), PackIslandsAction}

EmptyResponse == [status |-> 200, body |-> None]

\* get_status
get_status(state) ==
    [status |-> 200, body |-> Some([status |-> "ok", has_model |-> IsSome(state)])]

\* upload_model run from its first line to its last without another handler
upload_model(state, req) ==
    IF req.name # "file" THEN [state |-> state, response |-> EmptyResponse]
    ELSE LET imported == import_model_file(Some(req.data))
         IN  IF IsSome(imported)
             THEN [state |-> imported, response |-> OkResponse(Unwrap(imported))]
             ELSE [state |-> state, response |-> ErrResponse(500)]

\* one request served by its handler alone
ServeOne(state, req) ==
    CASE req.kind = "Upload" -> upload_model(state, req)
      [] req.kind = "Action" ->
            [state |-> perform_action(state, req.action).state,
             response |-> perform_action(state, req.action).response]
      [] req.kind = "GetProject" -> [state |-> state, response |-> get_project(state)]
      [] req.kind = "Export" ->
            [state |-> state, response |-> export_file(state, ExportParams("svg", FALSE))]
      [] req.kind = "Status" -> [state |-> state, response |-> get_status(state)]

\* the requests served one at a time in the order of the sequence
RECURSIVE Sequential(_, _)
Sequential(state, reqs) ==
    IF reqs = <<>> THEN [state |-> state, responses |-> <<>>]
    ELSE LET first == ServeOne(state, Head(reqs))
             rest == Sequential(first.state, Tail(reqs))
         IN  [state |-> rest.state, responses |-> <<first.response>> \o rest.responses]

Handler(req) == [req |-> req, pc |-> "arrived", imported |-> None,
                 response |-> ErrResponse(0)]

\* the router starts a handler task for a request
Arrive(req) ==
    /\ Len(handlers) < MaxRequests
    /\ handlers' = Append(handlers, Handler(req))
    /\ UNCHANGED <<project, response, last, nops, temp_dir, boot, solved>>

At(i, kind, pc) ==
    /\ i \in 1..Len(handlers)
    /\ handlers[i].req.kind = kind
    /\ handlers[i].pc = pc

Respond(i, resp) ==
    handlers' = [handlers EXCEPT ![i].pc = "done", ![i].response = resp]

\* upload_model: the multipart body has no field named file
UploadNoFile(i) ==
    /\ At(i, "Upload", "arrived")
    /\ handlers[i].req.name # "file"
    /\ Respond(i, EmptyResponse)
    /\ UNCHANGED <<project, response, last, nops, temp_dir, boot, solved>>

\* upload_model: the bytes of the field are written to temp_dir/file_name
UploadWrite(i) ==
    /\ At(i, "Upload", "arrived")
    /\ handlers[i].req.name = "file"
    /\ temp_dir' = [temp_dir EXCEPT ![handlers[i].req.file_name] = Some(handlers[i].req.data)]
    /\ handlers' = [handlers EXCEPT ![i].pc = "written"]
    /\ UNCHANGED <<project, response, last, nops, boot, solved>>

\* an import that drops the stored project when it fails
UploadImport_DropsProject(i) ==
    /\ At(i, "Upload", "written")
    /\ LET imported == import_model_file(temp_dir[handlers[i].req.file_name])
       IN  IF IsSome(imported)
           THEN /\ handlers' = [handlers EXCEPT ![i].pc = "imported",
                                                ![i].imported = imported]
                /\ project' = project
           ELSE /\ Respond(i, ErrResponse(500))
                /\ project' = None
    /\ UNCHANGED <<response, last, nops, temp_dir, boot, solved>>

\* upload_model: import_model_file reads the file at temp_path
UploadImport(i) ==
    /\ At(i, "Upload", "written")
    /\ LET imported == import_model_file(temp_dir[handlers[i].req.file_name])
       IN  IF IsSome(imported)
           THEN handlers' = [handlers EXCEPT ![i].pc = "imported",
                                             ![i].imported = imported]
           ELSE Respond(i, ErrResponse(500))
    /\ UNCHANGED <<project, response, last, nops, temp_dir, boot, solved>>

\* upload_model: the state is locked and the project stored
UploadStore(i) ==
    /\ At(i, "Upload", "imported")
    /\ project' = handlers[i].imported
    /\ Respond(i, OkResponse(Unwrap(handlers[i].imported)))
    /\ UNCHANGED <<response, last, nops, temp_dir, boot, solved>>

\* perform_action under the lock
HandleAction(i) ==
    /\ At(i, "Action", "arrived")
    /\ project' = perform_action(project, handlers[i].req.action).state
    /\ Respond(i, perform_action(project, handlers[i].req.action).response)
    /\ UNCHANGED <<response, last, nops, temp_dir, boot, solved>>

\* get_project under the lock
HandleGetProject(i) ==
    /\ At(i, "GetProject", "arrived")
    /\ Respond(i, get_project(project))
    /\ UNCHANGED <<project, response, last, nops, temp_dir, boot, solved>>

\* export_file under the lock
HandleExport(i) ==
    /\ At(i, "Export", "arrived")
    /\ Respond(i, export_file(project, ExportParams("svg", FALSE)))
    /\ UNCHANGED <<project, response, last, nops, temp_dir, boot, solved>>

\* get_status under the lock
HandleStatus(i) ==
    /\ At(i, "Status", "arrived")
    /\ Respond(i, get_status(project))
    /\ UNCHANGED <<project, response, last, nops, temp_dir, boot, solved>>

ArriveUpload ==
    \E name \in {"file", "other"}, file_name \in FileNames, data \in FileData :
        Arrive(UploadRequest(name, file_name, data))
ArriveAction == \E action \in HttpActionInputs : Arrive(ActionRequest(action))
ArriveRead == \E kind \in {"GetProject", "Export", "Status"} : Arrive(PlainRequest(kind))

NextHttp ==
    \/ ArriveUpload
    \/ ArriveAction
    \/ ArriveRead
    \/ \E i \in 1..MaxRequests : UploadNoFile(i)
    \/ \E i \in 1..MaxRequests : UploadWrite(i)
    \/ \E i \in 1..MaxRequests : UploadImport(i)
    \/ \E i \in 1..MaxRequests : UploadStore(i)
    \/ \E i \in 1..MaxRequests : HandleAction(i)
    \/ \E i \in 1..MaxRequests : HandleGetProject(i)
    \/ \E i \in 1..MaxRequests : HandleExport(i)
    \/ \E i \in 1..MaxRequests : HandleStatus(i)

SpecHttp == Init /\ [][NextHttp]_vars

----------------------------------------------------------------------------
(* Properties of the island registry *)

IslandCount(p) == Cardinality(IslandKeys(p))

IslandsOf(p, f) == {k \in IslandKeys(p) : f \in p.islands[k].faces}

\* the step handles the given action
Handles(action) ==
    /\ project' = perform_action(project, action).state
    /\ last'.type = action.type
    /\ nops' = nops + 1

\* cutting e separates its two faces
CutDisconnects(p, e) ==
    /\ p.edges[e] = Joined
    /\ HasTwoFaces(e)
    /\ EdgeFaces(e)[2] \notin
           Component([p.edges EXCEPT ![e] = Cut("None")], EdgeFaces(e)[1])

\* C1: every face is in exactly one island, and two faces are in the same
\* island exactly when a path of Joined edges connects them
C1_FacePartition ==
    IsSome(project) =>
        LET p == Unwrap(project)
        IN  /\ \A f \in Faces : Cardinality(IslandsOf(p, f)) = 1
            /\ \A k \in IslandKeys(p) : p.islands[k].faces # {}
            /\ \A f, g \in Faces :
                  (IslandsOf(p, f) = IslandsOf(p, g)) <=> (g \in Component(p.edges, f))

C1_Witness ==
    /\ IsSome(project)
    /\ nops = MaxOps
    /\ last.result = "Merged"
    /\ IslandCount(Unwrap(project)) = 2
    /\ \E e \in Spokes : Unwrap(project).edges[e] = Joined

\* what edge_cut leaves behind when it splits island k of p along e
SplitPost(p, q, e) ==
    LET k == island_by_face(p, EdgeFaces(e)[1])
        new == IslandKeys(q) \ IslandKeys(p)
    IN  /\ IslandCount(q) = IslandCount(p) + 1
        /\ Cardinality(new) = 1
        /\ \A n \in new :
              /\ n >= p.next_key
              /\ k \in IslandKeys(q)
              /\ q.islands[n].faces \in {Component(q.edges, EdgeFaces(e)[1]),
                                         Component(q.edges, EdgeFaces(e)[2])}
              /\ q.islands[k].faces = p.islands[k].faces \ q.islands[n].faces
              /\ q.islands[k].faces # {}
              /\ q.islands[k].loc = p.islands[k].loc
              /\ q.islands[k].rot = p.islands[k].rot
        /\ \A j \in IslandKeys(p) \ {k} :
              j \in IslandKeys(q) /\ q.islands[j] = p.islands[j]

\* C2: a cut of a Joined edge that disconnects its island adds exactly one
\* island with a fresh key holding one side; the other side keeps the key and
\* the pose of the original island, and no other island changes
C2_CutSplitsIsland ==
    [][\A e \in Edges, o \in OffsetInputs :
          (IsSome(project) /\ CutDisconnects(Unwrap(project), e)
             /\ Handles(CutAction(e, o)))
          => SplitPost(Unwrap(project), Unwrap(project'), e)]_vars

C2_Witness ==
    /\ IsSome(project)
    /\ last.type = "Cut"
    /\ last.result = "Split"
    /\ IslandCount(Unwrap(project)) = 3
    /\ \E k \in IslandKeys(Unwrap(project)) : Unwrap(project).islands[k].loc # <<0, 0>>

\* e is a cut edge between two different islands
JoinsTwoIslands(p, e) ==
    /\ IsCut(p.edges[e])
    /\ HasTwoFaces(e)
    /\ island_by_face(p, EdgeFaces(e)[1]) # island_by_face(p, EdgeFaces(e)[2])

MergePost(p, q, e, pf) ==
    LET ka == island_by_face(p, EdgeFaces(e)[1])
        kb == island_by_face(p, EdgeFaces(e)[2])
        survivor == IF IsSome(pf) THEN island_by_face(p, Unwrap(pf))
                    ELSE IF ka < kb THEN ka ELSE kb
    IN  /\ IslandCount(q) = IslandCount(p) - 1
        /\ IslandKeys(q) = IslandKeys(p) \ ({ka, kb} \ {survivor})
        /\ q.islands[survivor].faces = p.islands[ka].faces \cup p.islands[kb].faces
        /\ q.edges[e] = Joined

\* C3: a join of a cut edge between two islands leaves one island less; the
\* merged island has the key of the island of priority_face (a face of one of
\* the two islands) when one is given, else the smaller of the two keys
C3_JoinMergesIslands ==
    [][\A e \in Edges, pf \in PriorityInputs :
          (/\ IsSome(project)
           /\ JoinsTwoIslands(Unwrap(project), e)
           /\ IsSome(pf) =>
                 /\ Unwrap(pf) \in Faces
                 /\ island_by_face(Unwrap(project), Unwrap(pf)) \in
                       {island_by_face(Unwrap(project), EdgeFaces(e)[1]),
                        island_by_face(Unwrap(project), EdgeFaces(e)[2])}
           /\ Handles(JoinAction(e, pf)))
          => MergePost(Unwrap(project), Unwrap(project'), e, pf)]_vars

C3_Witness ==
    /\ IsSome(project)
    /\ last.type = "Join"
    /\ last.result = "Merged"
    /\ IslandCount(Unwrap(project)) = 2
    /\ 1 \notin IslandKeys(Unwrap(project))

----------------------------------------------------------------------------
(* Cut and join as inverses *)

\* the islands without their keys: members and pose
Unkeyed(p) ==
    {[faces |-> p.islands[k].faces, loc |-> p.islands[k].loc, rot |-> p.islands[k].rot] :
        k \in IslandKeys(p)}

\* equal up to a renaming of the island keys
SameUpToKeys(p, q) ==
    /\ p.edges = q.edges
    /\ Unkeyed(p) = Unkeyed(q)
    /\ p.options = q.options

Partition(p) == {p.islands[k].faces : k \in IslandKeys(p)}

Act(p, action) == ApplyAction(p, action).project

JoinApplicable(p, e) == HasTwoFaces(e) /\ p.edges[e] # Joined

JoinThenCut(p, e) == Act(Act(p, JoinAction(e, None)), CutAction(e, None))
CutThenJoin(p, e) == Act(Act(p, CutAction(e, None)), JoinAction(e, None))

\* C4 as claimed: join then cut, and cut then join, give back the state up to
\* a renaming of island keys, on every edge they apply to
C4_CutJoinInverse ==
    IsSome(project) =>
        \A e \in Edges :
            /\ JoinApplicable(Unwrap(project), e) =>
                  SameUpToKeys(JoinThenCut(Unwrap(project), e), Unwrap(project))
            /\ Unwrap(project).edges[e] = Joined =>
                  SameUpToKeys(CutThenJoin(Unwrap(project), e), Unwrap(project))

\* the pose every island of q has, if q has the faces of p's islands ka and kb
PoseOfBoth(p, q, e) ==
    LET ka == island_by_face(p, EdgeFaces(e)[1])
        kb == island_by_face(p, EdgeFaces(e)[2])
        first == IF ka < kb THEN ka ELSE kb
    IN  \A k \in IslandKeys(q) :
            q.islands[k].faces \subseteq (p.islands[ka].faces \cup p.islands[kb].faces)
            => /\ q.islands[k].loc = p.islands[first].loc
               /\ q.islands[k].rot = p.islands[first].rot

\* C4 amended: cut then join of a Joined edge gives back the state up to a
\* renaming of island keys; join then cut gives back the partition of the
\* faces and the other edges, leaves the edge Cut(None) whatever its flap side
\* or Hidden status was, and leaves the islands on both sides with the pose of
\* the island that survived the join
C4_CutJoinInverseAmended ==
    IsSome(project) =>
        LET p == Unwrap(project)
        IN  \A e \in Edges :
            /\ p.edges[e] = Joined => SameUpToKeys(CutThenJoin(p, e), p)
            /\ JoinApplicable(p, e) =>
                  LET q == JoinThenCut(p, e)
                  IN  /\ Partition(q) = Partition(p)
                      /\ q.edges = [p.edges EXCEPT ![e] = Cut("None")]
                      /\ q.options = p.options
                      /\ PoseOfBoth(p, q, e)
                      /\ \A k \in IslandKeys(p) :
                            e \notin {FaceEdges(f)[i] : f \in p.islands[k].faces, i \in 1..3}
                            => k \in IslandKeys(q) /\ q.islands[k] = p.islands[k]

C4_Witness ==
    /\ IsSome(project)
    /\ \E e \in Spokes :
          /\ Unwrap(project).edges[e] \in {Cut("A"), Cut("Both")}
          /\ JoinsTwoIslands(Unwrap(project), e)
          /\ Unwrap(project).islands[island_by_face(Unwrap(project), EdgeFaces(e)[1])].loc #
             Unwrap(project).islands[island_by_face(Unwrap(project), EdgeFaces(e)[2])].loc
    /\ \E e \in Spokes : CutDisconnects(Unwrap(project), e)

----------------------------------------------------------------------------
(* Errors of actions *)

\* the response is a multi-page SVG
IsSvg ==
    /\ last.type = "Export" /\ response.status = 200
    /\ Unwrap(response.body).format = "svg"

\* the response is a PDF
IsPdf ==
    /\ last.type = "Export" /\ response.status = 200
    /\ Unwrap(response.body).format = "pdf"

\* the layer of a page group with the given label
LayerOf(group, label) ==
    group.layers[CHOOSE i \in 1..Len(group.layers) : group.layers[i].label = label]

\* the step handles the action, and its response is an error that left the
\* project as it was
Refused(action) ==
    Handles(action) => (response'.status # 200 /\ project' = project)

\* C6: a join of an edge without two faces and a flap toggle of an edge that
\* is not Cut are answered with an error and leave the project unchanged; no
\* edge with a single face is ever Joined
C6_InvalidOperationReported ==
    /\ [][IsSome(project) =>
             \A e \in Edges :
                /\ ~HasTwoFaces(e) => \A pf \in PriorityInputs : Refused(JoinAction(e, pf))
                /\ ~IsCut(Unwrap(project).edges[e]) =>
                      \A a \in FlapActions : Refused(ToggleFlapAction(e, a))]_vars
    /\ [](IsSome(project) =>
             \A e \in Edges : Unwrap(project).edges[e] = Joined => HasTwoFaces(e))

\* C7: an action that names an island key, an edge index or a face index that
\* the project does not have is answered with an error and leaves the project
\* unchanged
C7_UnknownKeyReported ==
    [][IsSome(project) =>
          /\ \A k \in KeyInputs \ IslandKeys(Unwrap(project)) :
                /\ \A d \in DeltaInputs : Refused(MoveIslandAction(k, d))
                /\ \A a \in AngleInputs, c \in CenterInputs :
                      Refused(RotateIslandAction(k, a, c))
          /\ \A e \in EdgeInputs \ Edges :
                /\ \A o \in OffsetInputs : Refused(CutAction(e, o))
                /\ \A pf \in PriorityInputs : Refused(JoinAction(e, pf))
                /\ \A a \in FlapActions : Refused(ToggleFlapAction(e, a))
          /\ \A e \in Edges, f \in FaceInputs \ Faces : Refused(JoinAction(e, Some(f)))]_vars

----------------------------------------------------------------------------
(* Perimeter and traversal *)

EntryFace(peri) == face_by_sign(peri.i_edge, peri.face_sign)

\* the entry after entry i, cyclically
After(seq, i) == seq[(i % Len(seq)) + 1]

SharedVertices(e1, e2) ==
    {EdgeVerts(e1)[1], EdgeVerts(e1)[2]} \cap {EdgeVerts(e2)[1], EdgeVerts(e2)[2]}

PerimeterClosed(p, k) ==
    LET walk == PerimeterWalk(p, k)
        seq == walk.entries
    IN  /\ walk.done
        /\ \A i \in 1..Len(seq) :
              /\ seq[i].i_edge \in Edges
              /\ p.edges[seq[i].i_edge] # Joined
              /\ EntryFace(seq[i]) \in p.islands[k].faces
              /\ SharedVertices(seq[i].i_edge, After(seq, i).i_edge) # {}
              /\ vertices_of_edge(EntryFace(seq[i]), seq[i].i_edge)[2] =
                    vertices_of_edge(EntryFace(After(seq, i)), After(seq, i).i_edge)[1]

\* C8: for every island the perimeter walk ends with the recurrence of its
\* first entry; consecutive entries, and the last and the first, share a
\* vertex; every entry is an edge that is not Joined, with its face of the
\* given sign in the island
C8_PerimeterClosure ==
    IsSome(project) =>
        \A k \in IslandKeys(Unwrap(project)) : PerimeterClosed(Unwrap(project), k)

C8_Witness ==
    /\ IsSome(project)
    /\ last.type = "Export"
    /\ \E k \in IslandKeys(Unwrap(project)) :
          LET seq == island_perimeter(Unwrap(project), k)
          IN  /\ Len(seq) = 5
              /\ \E i, j \in 1..Len(seq) :
                    seq[i].i_edge = seq[j].i_edge /\ seq[i].face_sign # seq[j].face_sign
    /\ IsSvg
    /\ \E g \in 1..Len(Unwrap(response.body).groups) :
          \E i \in 1..Len(LayerOf(Unwrap(response.body).groups[g], "Cut").elements) :
              Len(LayerOf(Unwrap(response.body).groups[g], "Cut").elements[i].points) = 5

Occurrences(seq, x) == Cardinality({i \in 1..Len(seq) : seq[i] = x})

\* C9: with a callback that never breaks, the callback is called once for
\* every face of the island and for no other face, cyclic Joined graph or
\* not; with a callback that breaks, the call that broke is the last one
C9_TraverseOnce ==
    IsSome(project) =>
        LET p == Unwrap(project)
        IN  \A k \in IslandKeys(p) :
              /\ \A f \in Faces :
                    Occurrences(traverse_faces(p, k, {}), f) =
                        IF f \in p.islands[k].faces THEN 1 ELSE 0
              /\ \A b \in p.islands[k].faces :
                    LET calls == traverse_faces(p, k, {b})
                    IN  /\ calls # <<>>
                        /\ calls[Len(calls)] = b
                        /\ \A f \in Faces : Occurrences(calls, f) <= 1
                        /\ \A i \in 1..Len(calls) : calls[i] \in p.islands[k].faces

\* the Joined edges form a cycle through all three faces
C9_Witness ==
    /\ IsSome(project)
    /\ last.type = "Export"
    /\ \A e \in Spokes : Unwrap(project).edges[e] = Joined
    /\ IsSvg
    /\ \E g \in 1..Len(Unwrap(response.body).groups) :
          Len(LayerOf(Unwrap(response.body).groups[g], "Faces").elements)
              >= Cardinality(Faces)

----------------------------------------------------------------------------
(* Packing *)

BoxOf(p, k) == island_bounding_box_angle(p.islands[k])

BoxesOverlap(b1, b2) ==
    /\ b1[1][1] < b2[2][1] /\ b2[1][1] < b1[2][1]
    /\ b1[1][2] < b2[2][2] /\ b2[1][2] < b1[2][2]

NoOverlap(p) ==
    \A j, k \in IslandKeys(p) : j # k => ~BoxesOverlap(BoxOf(p, j), BoxOf(p, k))

CenterPage(p, k) == OwnerPage(p.options, p.islands[k])

Packed == IsSome(project) /\ last.type = "PackIslands"

\* C10: after pack_islands the bounding boxes of two distinct islands do not
\* overlap, and the center of every bounding box maps to a page index smaller
\* than the number of pages of the options
C10_PackNoOverlap ==
    Packed =>
        LET p == Unwrap(project)
        IN  /\ NoOverlap(p)
            /\ \A k \in IslandKeys(p) : CenterPage(p, k) < p.options.pages

\* every bounding box is no larger than the content area of a page
FitsContent(p) ==
    \A k \in IslandKeys(p) :
        /\ BoxW(p.islands[k]) <= ContentW(p.options)
        /\ BoxH(p.islands[k]) <= ContentH(p.options)

\* the bounding box lies in the content area of page pg
InsideContent(p, k, pg) ==
    LET origin == page_position(p.options, pg)
        bb == BoxOf(p, k)
    IN  /\ origin[1] + p.options.margin[2] <= bb[1][1]
        /\ bb[2][1] <= origin[1] + p.options.page_size[1] - p.options.margin[3]
        /\ origin[2] + p.options.margin[1] <= bb[1][2]
        /\ bb[2][2] <= origin[2] + p.options.page_size[2] - p.options.margin[4]

\* C10 (amended): after pack_islands of islands that each fit the content
\* area, the bounding boxes of two distinct islands do not overlap, every
\* bounding box lies in the content area of the page its center maps to, and
\* that page index is smaller than the number of islands
C10_PackNoOverlapAmended ==
    (Packed /\ FitsContent(Unwrap(project))) =>
        LET p == Unwrap(project)
        IN  /\ NoOverlap(p)
            /\ \A k \in IslandKeys(p) :
                  /\ CenterPage(p, k) < IslandCount(p)
                  /\ InsideContent(p, k, CenterPage(p, k))

\* three islands packed into two rows of the first page and onto a second page
C10_Witness ==
    /\ Packed
    /\ FitsContent(Unwrap(project))
    /\ IslandCount(Unwrap(project)) = 3
    /\ \E j, k \in IslandKeys(Unwrap(project)) :
          /\ CenterPage(Unwrap(project), j) # CenterPage(Unwrap(project), k)

----------------------------------------------------------------------------
(* Concurrent requests *)

AllDone == handlers # <<>> /\ \A i \in 1..Len(handlers) : handlers[i].pc = "done"

ArrivalOrder == [i \in 1..Len(handlers) |-> handlers[i].req]

\* C5: when every request has been answered, the project and every response
\* are those of the requests served one at a time in the order of arrival
C5_ArrivalOrderSerial ==
    AllDone =>
        /\ project = Sequential(boot, ArrivalOrder).state
        /\ \A i \in 1..Len(handlers) :
              handlers[i].response = Sequential(boot, ArrivalOrder).responses[i]

----------------------------------------------------------------------------
(* Export: which page an island is drawn on *)

\* the document of the response
Doc == Unwrap(response.body)

\* the elements of a layer; the Fold layer holds those of its two sublayers
LayerElements(layer) ==
    IF layer.label = "Fold"
    THEN layer.elements[1].elements \o layer.elements[2].elements
    ELSE layer.elements

\* the island a point was placed for; 0 for a point that is not of the layout
PointIsland(pt) == IF "island" \in DOMAIN pt THEN pt.island ELSE 0

\* the island an element of a page group was drawn for; 0 for a text
ElementIsland(el) ==
    CASE el.tag = "polygon" -> PointIsland(el.points[1])
      [] el.tag = "pattern" -> PointIsland(el.pts[1])
      [] el.tag = "line" -> PointIsland(el.p0)
      [] el.tag = "path" -> PointIsland(el.points[1])
      [] OTHER -> 0

\* something of island k is drawn in page group g of the SVG document
SvgDraws(doc, g, k) ==
    \E l \in 1..Len(doc.groups[g].layers) :
        \E i \in 1..Len(LayerElements(doc.groups[g].layers[l])) :
            ElementIsland(LayerElements(doc.groups[g].layers[l])[i]) = k

\* a path operator of page i of the PDF document goes through a point of island k
PdfDraws(doc, i, k) ==
    \E j \in 1..Len(doc.kids[i].contents) :
        /\ doc.kids[i].contents[j].op \in {"m", "l"}
        /\ PointIsland(doc.kids[i].contents[j].args[1]) = k

\* the indices of the pages of the response on which island k is drawn
DrawnPages(k) ==
    IF Doc.format = "svg"
    THEN {g - 1 : g \in {h \in 1..Len(Doc.groups) : SvgDraws(Doc, h, k)}}
    ELSE {i - 1 : i \in {h \in 1..Len(Doc.kids) : PdfDraws(Doc, h, k)}}

Exported == IsSvg \/ IsPdf

\* floor(x / (W + 10)) and floor(y / (H + 10)) of the bounding-box center
CenterCol(p, k) ==
    BoxCenter(BoxOf(p, k))[1] \div (p.options.page_size[1] + 10)
CenterRow(p, k) ==
    BoxCenter(BoxOf(p, k))[2] \div (p.options.page_size[2] + 10)

\* the number of columns the export lays the pages out in: the PDF export
\* widens page_cols to the largest center column plus one
ExportCols(p) ==
    LET max_col == Max({CenterCol(p, k) : k \in IslandKeys(p)} \cup {0})
    IN  IF Doc.format = "pdf" /\ max_col >= p.options.page_cols
        THEN max_col + 1
        ELSE MaxU(p.options.page_cols, 1)

\* floor(y / (H + 10)) * cols + floor(x / (W + 10))
PageIndex(p, k) == CenterRow(p, k) * ExportCols(p) + CenterCol(p, k)

ColInRange(p, k) == 0 <= CenterCol(p, k) /\ CenterCol(p, k) < p.options.page_cols

\* C11 as stated: an island whose center column is within page_cols is drawn
\* on the page of index row * cols + col and on no other page
C11_IslandOnItsPage ==
    Exported =>
        \A k \in IslandKeys(Unwrap(project)) :
            ColInRange(Unwrap(project), k) =>
                DrawnPages(k) = {PageIndex(Unwrap(project), k)}

\* C11 amended: such an island is drawn on the page of index row * cols + col,
\* cols being the columns the export uses, when the document has a page of
\* that index, and on no page at all when it has none; it is never drawn on
\* another page, so its faces, folds, flaps and contour are on one page
C11_IslandOnItsPageAmended ==
    Exported =>
        \A k \in IslandKeys(Unwrap(project)) :
            ColInRange(Unwrap(project), k) =>
                DrawnPages(k) =
                    IF PageIndex(Unwrap(project), k) \in 0..(Unwrap(project).options.pages - 1)
                    THEN {PageIndex(Unwrap(project), k)}
                    ELSE {}

\* a PDF whose second page shows an island and whose first page shows another
C11_Witness ==
    /\ IsPdf
    /\ \E j, k \in IslandKeys(Unwrap(project)) :
          /\ ColInRange(Unwrap(project), j) /\ ColInRange(Unwrap(project), k)
          /\ DrawnPages(j) = {0}
          /\ DrawnPages(k) = {1}
          /\ PageIndex(Unwrap(project), k) = 1

----------------------------------------------------------------------------
(* Export: widening of page_cols *)

\* where the export puts the sheet of the page of index pg on the canvas
PageOrigin(p, pg) ==
    IF Doc.format = "svg" THEN Doc.groups[pg + 1].translate
    ELSE page_position(WidenedOptions(p), pg)

\* the grid slot of the sheet at origin holds the bounding-box center of island k
SlotHoldsCenter(p, origin, k) ==
    LET c == BoxCenter(BoxOf(p, k))
    IN  /\ origin[1] <= c[1] /\ c[1] < origin[1] + p.options.page_size[1] + PAGE_SEP
        /\ origin[2] <= c[2] /\ c[2] < origin[2] + p.options.page_size[2] + PAGE_SEP

\* C12: in an export, SVG or PDF, no island is drawn on a page whose grid
\* slot does not hold the center of the island
C12_NoWrapping ==
    Exported =>
        \A k \in IslandKeys(Unwrap(project)) :
            \A pg \in DrawnPages(k) :
                SlotHoldsCenter(Unwrap(project), PageOrigin(Unwrap(project), pg), k)

----------------------------------------------------------------------------
(* Export: the pages of the documents *)

\* ((p mod cols) * (W + 10), (p div cols) * (H + 10))
GridOrigin(o, pg) ==
    <<(pg % MaxU(o.page_cols, 1)) * (o.page_size[1] + 10),
      (pg \div MaxU(o.page_cols, 1)) * (o.page_size[2] + 10)>>

\* C13: a multi-page SVG has one <inkscape:page> and one page group per
\* configured page, in ascending order of the page, and the group of a page
\* is translated to the x and y of the <inkscape:page> of that page, which
\* is page_position of the page
C13_SvgPagesMatchGroups ==
    IsSvg =>
        LET o == Unwrap(project).options
        IN  /\ Len(Doc.namedview) = o.pages
            /\ Len(Doc.groups) = o.pages
            /\ \A i \in 1..o.pages :
                  /\ Doc.namedview[i].tag = "inkscape:page"
                  /\ Doc.namedview[i].id = <<"Page", i>>
                  /\ Doc.groups[i].id = <<"page", i>>
                  /\ Doc.groups[i].translate = Doc.namedview[i].xy
                  /\ Doc.namedview[i].xy = GridOrigin(o, i - 1)

\* an SVG of two pages in one column, with an island on the second
C13_Witness ==
    /\ IsSvg
    /\ Len(Doc.groups) = 2
    /\ Doc.groups[2].translate = <<0, 50>>
    /\ \E k \in IslandKeys(Unwrap(project)) : DrawnPages(k) = {1}

\* C14: a PDF has one Page object per configured page and /Count is that
\* number, whatever the islands are and whether page_cols was widened
C14_PdfPageCount ==
    IsPdf =>
        /\ Doc.count = Unwrap(project).options.pages
        /\ Len(Doc.kids) = Unwrap(project).options.pages
        /\ \A i \in 1..Len(Doc.kids) : Doc.kids[i].type = "Page"

\* a PDF of two pages made with page_cols widened and an island on no page
C14_Witness ==
    /\ IsPdf
    /\ Doc.count = 2
    /\ WidenedOptions(Unwrap(project)).page_cols > Unwrap(project).options.page_cols
    /\ \E k \in IslandKeys(Unwrap(project)) : DrawnPages(k) = {}

----------------------------------------------------------------------------
(* The texture-matrix solver *)

\* den * (M * (x, y, 1)), M = num / den
TransformScaled(m, pt) ==
    [r \in 1..3 |-> At3(m.num, r, 1) * pt[1] + At3(m.num, r, 2) * pt[2] + At3(m.num, r, 3)]

\* the three points lie on one line
Collinear(t) ==
    (t[2][1] - t[1][1]) * (t[3][2] - t[1][2]) = (t[3][1] - t[1][1]) * (t[2][2] - t[1][2])

\* C15: for UVs that are not collinear the solver returns a matrix M with
\* M * (u_i, 1) = (p_i, 1) for the three vertices; for collinear UVs it
\* returns None and the triangle is skipped
C15_SolverMapsUVs ==
    (solved.done /\ solved.uvs # <<>>) =>
        IF Collinear(solved.uvs)
        THEN /\ solved.matrix = None
             /\ ~solved.svg
             /\ solved.ops = <<>>
        ELSE /\ IsSome(solved.matrix)
             /\ \A i \in 1..3 :
                   TransformScaled(Unwrap(solved.matrix), solved.uvs[i])
                       = <<Unwrap(solved.matrix).den * solved.pts[i][1],
                           Unwrap(solved.matrix).den * solved.pts[i][2],
                           Unwrap(solved.matrix).den>>
             /\ solved.svg
             /\ solved.ops # <<>>

\* a triangle of UVs of twice the unit area mapped to a triangle that is
\* neither degenerate nor aligned with the axes
C15_Witness ==
    /\ solved.done
    /\ solved.uvs = <<<<0, 1>>, <<2, 0>>, <<1, 2>>>>
    /\ solved.pts = <<<<5, 1>>, <<0 - 2, 7>>, <<3, 3>>>>
    /\ IsSome(solved.matrix)
    /\ Unwrap(solved.matrix).den \notin {0 - 1, 0, 1}

----------------------------------------------------------------------------
(* Export: textures *)

\* the texture of the material of the face exists and has pixel data
HasPixels(f) ==
    /\ FaceMaterial(f) + 1 \in DOMAIN Textures
    /\ IsSome(Textures[FaceMaterial(f) + 1])

\* the elements of the Faces layer of page group g
FaceElements(g) == LayerOf(Doc.groups[g], "Faces").elements

\* a pattern, or a polygon filled with one
IsTextureOutput(el) ==
    \/ el.tag = "pattern"
    \/ el.tag = "polygon" /\ el.fill[1] = "url"

ElementFace(el) == IF el.tag = "pattern" THEN el.pts[1].face ELSE el.points[1].face

\* C16: a face gets texture output only if the export is made with textures
\* and the texture of its material has pixel data; an SVG made without
\* textures has no <image>, no base64 data and no pattern; a face whose
\* texture has no pixel data is filled with the paper colour
C16_TextureOnlyWithPixels ==
    /\ IsSvg =>
          /\ \A g \in 1..Len(Doc.groups) : \A i \in 1..Len(FaceElements(g)) :
                IsTextureOutput(FaceElements(g)[i]) =>
                    /\ last.params.with_textures
                    /\ HasPixels(ElementFace(FaceElements(g)[i]))
          /\ ~last.params.with_textures => Doc.defs = None
          /\ last.params.with_textures =>
                /\ IsSome(Doc.defs)
                /\ \A i \in 1..Len(Unwrap(Doc.defs)) :
                      IsSome(Textures[Unwrap(Doc.defs)[i].id[2] + 1])
          /\ \A k \in IslandKeys(Unwrap(project)) : \A pg \in DrawnPages(k) :
                \A f \in Unwrap(project).islands[k].faces :
                    ~HasPixels(f) =>
                        \E i \in 1..Len(FaceElements(pg + 1)) :
                            /\ FaceElements(pg + 1)[i].tag = "polygon"
                            /\ FaceElements(pg + 1)[i].fill = <<"paper_color">>
                            /\ FaceElements(pg + 1)[i].points[1].face = f
    /\ IsPdf =>
          \A pg \in 1..Len(Doc.kids) :
              /\ \A j \in 1..Len(Doc.kids[pg].contents) :
                    Doc.kids[pg].contents[j].op \in {"cm", "scn", "cs"} =>
                        /\ last.params.with_textures
                        /\ Doc.kids[pg].contents[j].op = "cm" =>
                              HasPixels(Doc.kids[pg].contents[j].args[2][1].face)
              /\ ~last.params.with_textures => Doc.kids[pg].patterns = {}

\* an SVG made with textures that has a face filled with a pattern and a
\* face, without pixel data, filled with the paper colour
C16_Witness ==
    /\ IsSvg
    /\ last.params.with_textures
    /\ \E g \in 1..Len(Doc.groups) :
          /\ \E i \in 1..Len(FaceElements(g)) : FaceElements(g)[i].tag = "pattern"
          /\ \E i \in 1..Len(FaceElements(g)) :
                /\ FaceElements(g)[i].tag = "polygon"
                /\ FaceElements(g)[i].fill = <<"paper_color">>
                /\ ~HasPixels(FaceElements(g)[i].points[1].face)

----------------------------------------------------------------------------
(* Export: what is drawn along an edge *)

PointVertex(pt) == IF "vertex" \in DOMAIN pt THEN pt.vertex ELSE 0 - 1

\* the edges whose two ends are the vertices of the points a and b
EdgesAlong(a, b) ==
    {e \in Edges : {EdgeVerts(e)[1], EdgeVerts(e)[2]} = {PointVertex(a), PointVertex(b)}}

\* the edges along the segments of a path through the points, closed or open
PathEdges(points, closed) ==
    UNION {EdgesAlong(points[i], points[i + 1]) : i \in 1..(Len(points) - 1)}
        \cup (IF closed /\ points # <<>>
              THEN EdgesAlong(points[Len(points)], points[1]) ELSE {})

\* the paths of a page of a PDF: the points of the m and l operators before
\* a painting operator, and that operator
PdfPaths(contents) ==
    {[points |-> [t \in 1..(j - Max({h \in 1..(j - 1) : contents[h].op = "m"})) |->
                    contents[Max({h \in 1..(j - 1) : contents[h].op = "m"}) + t - 1].args[1]],
      paint |-> contents[j].op] :
        j \in {h \in 2..Len(contents) :
                  /\ contents[h].op \in {"f", "S", "s"}
                  /\ contents[h - 1].op = "l"}}

\* the elements of the layer of that label, none if the group has no such layer
ElementsOf(group, label) ==
    IF \E i \in 1..Len(group.layers) : group.layers[i].label = label
    THEN LayerElements(LayerOf(group, label))
    ELSE <<>>

\* the paths of the PDF painted with the operator
PdfPainted(paint) ==
    UNION {{q \in PdfPaths(Doc.kids[pg].contents) : q.paint = paint} :
              pg \in 1..Len(Doc.kids)}

\* the edges a fold line is drawn along
FoldEdgesDrawn ==
    IF Doc.format = "svg"
    THEN UNION {UNION {EdgesAlong(ElementsOf(Doc.groups[g], "Fold")[i].p0,
                                  ElementsOf(Doc.groups[g], "Fold")[i].p1) :
                        i \in 1..Len(ElementsOf(Doc.groups[g], "Fold"))} :
                  g \in 1..Len(Doc.groups)}
    ELSE UNION {PathEdges(path.points, FALSE) :
                  path \in {q \in PdfPainted("S") : Len(q.points) = 2}}

\* the edges a flap is attached to
FlapEdgesDrawn ==
    IF Doc.format = "svg"
    THEN UNION {UNION {EdgesAlong(ElementsOf(Doc.groups[g], "Flaps")[i].points[1],
                                  ElementsOf(Doc.groups[g], "Flaps")[i].points[2]) :
                        i \in 1..Len(ElementsOf(Doc.groups[g], "Flaps"))} :
                  g \in 1..Len(Doc.groups)}
    ELSE UNION {EdgesAlong(path.points[1], path.points[2]) :
                  path \in {q \in PdfPainted("f") :
                              /\ Len(q.points) = 4
                              /\ "flap_at" \in DOMAIN q.points[3]}}

\* the edges a stroked segment of a cut contour runs along
ContourEdgesDrawn ==
    IF Doc.format = "svg"
    THEN UNION {UNION {PathEdges(LayerOf(Doc.groups[g], "Cut").elements[i].points, TRUE) :
                        i \in 1..Len(LayerOf(Doc.groups[g], "Cut").elements)} :
                  g \in 1..Len(Doc.groups)}
    ELSE UNION {PathEdges(path.points, TRUE) : path \in PdfPainted("s")}

HiddenEdges(p) == {e \in Edges : p.edges[e] = Hidden}

\* C17: a Hidden edge gets no fold line, no flap and no stroked segment of a
\* cut contour, in SVG and in PDF
C17_HiddenEdgeNotDrawn ==
    Exported =>
        /\ HiddenEdges(Unwrap(project)) \cap FoldEdgesDrawn = {}
        /\ HiddenEdges(Unwrap(project)) \cap FlapEdgesDrawn = {}
        /\ HiddenEdges(Unwrap(project)) \cap ContourEdgesDrawn = {}

----------------------------------------------------------------------------
(* Export: the layers of a page group *)

Labels(layers) == [i \in 1..Len(layers) |-> layers[i].label]

\* C20: every page group of an SVG holds the layers Faces, Flaps, Fold with
\* Mountain and Valley, Cut and Text, in that order, whatever the options
C20_LayerOrder ==
    IsSvg =>
        \A g \in 1..Len(Doc.groups) :
            /\ Labels(Doc.groups[g].layers) = <<"Faces", "Flaps", "Fold", "Cut", "Text">>
            /\ Labels(LayerOf(Doc.groups[g], "Fold").elements) = <<"Mountain", "Valley">>

----------------------------------------------------------------------------
(* Uploads: the temporary file *)

\* one step of an upload_model task
UploadStep ==
    \E i \in 1..MaxRequests :
        UploadNoFile(i) \/ UploadWrite(i) \/ UploadImport(i) \/ UploadStore(i)

\* the runtime polls a started upload_model task until it returns
SpecHttpFair == SpecHttp /\ WF_handlers(UploadStep)

\* C18: the temporary file of an upload is eventually deleted, whether the
\* import succeeded or failed
C18_TempFileDeleted ==
    \A n \in FileNames : IsSome(temp_dir[n]) ~> (temp_dir[n] = None)

\* what upload_model answers for the bytes when nothing interferes
UploadOutcome(data) ==
    IF IsSome(import_model_file(Some(data)))
    THEN OkResponse(Unwrap(import_model_file(Some(data))))
    ELSE ErrResponse(500)

\* C19: the temporary file belongs to its upload handler alone: whatever the
\* interleaving of two uploads, each handler imports the bytes it received
\* and answers with the model of those bytes
C19_OwnTempFile ==
    \A i \in 1..Len(handlers) :
        (handlers[i].req.kind = "Upload" /\ handlers[i].req.name = "file") =>
            /\ handlers[i].pc = "imported" =>
                  handlers[i].imported = import_model_file(Some(handlers[i].req.data))
            /\ handlers[i].pc = "done" =>
                  handlers[i].response = UploadOutcome(handlers[i].req.data)

----------------------------------------------------------------------------
(* PDF: the line width a path is stroked with *)

\* the line width in force at position j of a content stream, in tenths of a
\* point: the operand of the last w before j, the default 1 pt if there is none
LineWidthAt(contents, j) ==
    IF \E h \in 1..(j - 1) : contents[h].op = "w"
    THEN contents[Max({h \in 1..(j - 1) : contents[h].op = "w"})].args[1]
    ELSE 10

\* the positions of the operators that stroke a fold (S after m, l) or a
\* perimeter contour (s)
FoldOrCutStrokes(contents) ==
    {j \in 3..Len(contents) :
        \/ contents[j].op = "s"
        \/ /\ contents[j].op = "S"
           /\ contents[j - 1].op = "l"
           /\ contents[j - 2].op = "m"}

\* the positions of the operators that stroke the outline of a flap (S after
\* m, l, l, l)
FlapStrokes(contents) ==
    {j \in 5..Len(contents) :
        /\ contents[j].op = "S"
        /\ contents[j - 1].op = "l"
        /\ contents[j - 2].op = "l"}

\* C21: in every page of a PDF every fold and every perimeter contour is
\* stroked with the line width 0.5 pt and only the outline of a flap with
\* 0.2 pt, whatever was drawn earlier on the page
C21_StrokeWidths ==
    IsPdf =>
        \A pg \in 1..Len(Doc.kids) :
            /\ \A j \in FoldOrCutStrokes(Doc.kids[pg].contents) :
                  LineWidthAt(Doc.kids[pg].contents, j) = 5
            /\ \A j \in FlapStrokes(Doc.kids[pg].contents) :
                  LineWidthAt(Doc.kids[pg].contents, j) = 2

----------------------------------------------------------------------------
(* Export: the flaps of the layout *)

\* the flaps of a document in the order they are written, each as the edge
\* it is attached to and the face it is attached from
FlapsOf(doc) ==
    IF doc.format = "svg"
    THEN Concat([g \in 1..Len(doc.groups) |->
            [i \in 1..Len(ElementsOf(doc.groups[g], "Flaps")) |->
                <<ElementsOf(doc.groups[g], "Flaps")[i].points[3].edge,
                  ElementsOf(doc.groups[g], "Flaps")[i].points[1].face>>]])
    ELSE Concat([pg \in 1..Len(doc.kids) |->
            LET c == doc.kids[pg].contents
                at == SelectSeq([j \in 1..Len(c) |-> j], LAMBDA j :
                        /\ j >= 5
                        /\ c[j].op = "f"
                        /\ c[j - 1].op = "l"
                        /\ "flap_at" \in DOMAIN c[j - 1].args[1])
            IN  [i \in 1..Len(at) |->
                    <<c[at[i] - 1].args[1].edge, c[at[i] - 4].args[1].face>>]])

CountOf(seq, x) == Cardinality({i \in 1..Len(seq) : seq[i] = x})

\* the sides of the edges: an edge and the sign of one of its faces
EdgeSides == {s \in Edges \X BOOLEAN : face_by_sign(s[1], s[2]) # NoFace}

\* the number of flaps the status of the edge asks for on the side
FlapsAsked(p, e, sign) ==
    IF IsCut(p.edges[e]) /\ flap_visible(SideOf(p.edges[e]), sign) THEN 1 ELSE 0

\* C22: with a flap style other than None the layout has a flap on a side of
\* an edge if and only if the edge is Cut(side) with flap_visible(side, sign):
\* none for Cut(None), Joined and Hidden, one for Cut(A) and Cut(B), one per
\* adjacent face for Cut(Both); the SVG and the PDF of a project have the
\* same flaps
C22_FlapIffVisible ==
    (IsSome(project) /\ Unwrap(project).options.flap_style # "None") =>
        /\ Exported =>
              \A s \in EdgeSides :
                  CountOf(FlapsOf(Doc), <<s[1], face_by_sign(s[1], s[2])>>)
                      = FlapsAsked(Unwrap(project), s[1], s[2])
        /\ \A s \in EdgeSides :
              CountOf(FlapsOf(write_svg_multipage(Unwrap(project), FALSE)),
                      <<s[1], face_by_sign(s[1], s[2])>>)
                  = CountOf(FlapsOf(generate_pdf(Unwrap(project), FALSE)),
                            <<s[1], face_by_sign(s[1], s[2])>>)

----------------------------------------------------------------------------
(* The matrices the exporters write for a textured triangle *)

\* C23: the cm matrix written for a textured triangle of a PDF maps every UV
\* (u, v) of the triangle to the PDF point (mm_to_pt(x), pdf_y(y)) at which
\* the vertex (x, y) of the face polygon is drawn
C23_CmMapsUVs ==
    (solved.done /\ IsSome(solved.cm)) =>
        \A i \in 1..3 :
            /\ Unwrap(solved.cm).a * solved.uvs[i][1] + Unwrap(solved.cm).c * solved.uvs[i][2]
                   + Unwrap(solved.cm).e
                 = mm_to_pt(solved.pts[i][1]) * Unwrap(solved.cm).den
            /\ Unwrap(solved.cm).b * solved.uvs[i][1] + Unwrap(solved.cm).d * solved.uvs[i][2]
                   + Unwrap(solved.cm).f
                 = pdf_y(solved.page_height, solved.pts[i][2]) * Unwrap(solved.cm).den

\* a triangle that is not aligned with the axes, with a cm matrix whose six
\* operands are all non-zero
C23_Witness ==
    /\ solved.done
    /\ solved.uvs = <<<<0, 1>>, <<2, 0>>, <<1, 2>>>>
    /\ solved.pts = <<<<5, 1>>, <<0 - 2, 7>>, <<3, 3>>>>
    /\ solved.page_height = 80
    /\ IsSome(solved.cm)
    /\ \A x \in {Unwrap(solved.cm).a, Unwrap(solved.cm).b, Unwrap(solved.cm).c,
                 Unwrap(solved.cm).d, Unwrap(solved.cm).e, Unwrap(solved.cm).f} : x # 0

\* the pixel UVs of the triangle in hand
SolvedPixelUVs == PixelUVs(solved.uvs, solved.tex[1], solved.tex[2])

\* how far the first (r = 1) or second (r = 2) coordinate of the image of the
\* pixel UV of vertex i under the pattern matrix m lies from the page point,
\* as a fraction: with the entries num / den it is
\* (num[r] . (u, v, 1) - den * p) / den, and with the nudged diagonal entry
\* 3/25000 in place of num[r][r] / den
PatternError(m, i, r) ==
    LET uv == SolvedPixelUVs[i]
        exact == At3(m.num, r, 1) * uv[1] + At3(m.num, r, 2) * uv[2] + At3(m.num, r, 3)
                     - m.den * solved.pts[i][r]
    IN  IF m.nudged
        THEN [num |-> 3 * uv[r] * m.den
                         + 25000 * (exact - At3(m.num, r, r) * uv[r]),
              den |-> 25000 * m.den]
        ELSE [num |-> exact, den |-> m.den]

Abs(n) == IF n < 0 THEN 0 - n ELSE n

\* C24: for a texture of non-zero width and height and pixel UVs that are
\* not collinear the patternTransform matrix maps each of the three pixel
\* UVs to the page point of its vertex (to within 1/100 mm), also where the
\* exact matrix has a = d = 0
C24_PatternMapsPixels ==
    (/\ solved.done /\ solved.uvs # <<>>
     /\ solved.tex[1] # 0 /\ solved.tex[2] # 0
     /\ ~Collinear(SolvedPixelUVs)) =>
        /\ IsSome(solved.pattern)
        /\ \A i \in 1..3 : \A r \in 1..2 :
              100 * Abs(PatternError(Unwrap(solved.pattern), i, r).num)
                  <= Abs(PatternError(Unwrap(solved.pattern), i, r).den)

----------------------------------------------------------------------------
(* Export: the fold lines of the layout *)

\* the Joined edges with two faces
FoldEdges(p) == {e \in Edges : p.edges[e] = Joined /\ HasTwoFaces(e)}

\* the number of lines along the edge in the Mountain (sub = 1) or Valley
\* (sub = 2) layer of a page group
SvgFoldCount(group, sub, e) ==
    Cardinality({i \in 1..Len(LayerOf(group, "Fold").elements[sub].elements) :
                    LayerOf(group, "Fold").elements[sub].elements[i].edge = e})

\* C25: in an SVG made with a fold style other than None every Joined edge
\* with two faces, in an island assigned to page p, has exactly one fold line
\* on page p: a mountain if its angle is not negative, a valley otherwise,
\* whichever of its faces has the larger index
C25_OneFoldPerEdge ==
    (IsSvg /\ Unwrap(project).options.fold_style # "None") =>
        \A e \in FoldEdges(Unwrap(project)) : \A g \in 1..Len(Doc.groups) :
            CenterPage(Unwrap(project),
                       island_by_face(Unwrap(project), EdgeFaces(e)[1])) = g - 1 =>
                /\ SvgFoldCount(Doc.groups[g], 1, e) = (IF AngleNegative(e) THEN 0 ELSE 1)
                /\ SvgFoldCount(Doc.groups[g], 2, e) = (IF AngleNegative(e) THEN 1 ELSE 0)

\* the positions of the operators of a content stream that stroke a fold
\* along the edge (S after m, l), dashed for a valley
PdfFoldStrokes(contents, e, valley) ==
    {j \in 4..Len(contents) :
        /\ contents[j].op = "S"
        /\ contents[j - 1].op = "l"
        /\ contents[j - 2].op = "m"
        /\ contents[j - 3].op = "d"
        /\ contents[j - 3].args[1] = (IF valley THEN "dashed" ELSE "solid")
        /\ e \in EdgesAlong(contents[j - 2].args[1], contents[j - 1].args[1])}

\* the number of fold lines along the edge on the page of that index in the
\* PDF and in the SVG, 0 on a page the document does not have
PdfFoldCount(doc, page, e, valley) ==
    IF page + 1 \in 1..Len(doc.kids)
    THEN Cardinality(PdfFoldStrokes(doc.kids[page + 1].contents, e, valley))
    ELSE 0
SvgFoldsOnPage(doc, page, e, valley) ==
    IF page + 1 \in 1..Len(doc.groups)
    THEN SvgFoldCount(doc.groups[page + 1], IF valley THEN 2 ELSE 1, e)
    ELSE 0

\* C26: in a PDF made with a fold style other than None every Joined edge
\* with two faces, in an island assigned to page p, has exactly one fold
\* stroke on page p, and the pages of the PDF hold the same fold lines, each
\* as often, as the pages of the SVG of the same project
C26_PdfFoldsAsSvg ==
    (IsPdf /\ Unwrap(project).options.fold_style # "None") =>
        /\ \A e \in FoldEdges(Unwrap(project)) : \A pg \in 0..(Len(Doc.kids) - 1) :
              CenterPage(Unwrap(project),
                         island_by_face(Unwrap(project), EdgeFaces(e)[1])) = pg =>
                  PdfFoldCount(Doc, pg, e, AngleNegative(e))
                      + PdfFoldCount(Doc, pg, e, ~AngleNegative(e)) = 1
        /\ \A e \in Edges : \A pg \in 0..(Len(Doc.kids) - 1) : \A valley \in BOOLEAN :
              PdfFoldCount(Doc, pg, e, valley)
                  = SvgFoldsOnPage(write_svg_multipage(Unwrap(project),
                                                       last.params.with_textures),
                                   pg, e, valley)

----------------------------------------------------------------------------
(* Export: references to textures *)

\* the pattern elements of the Faces layer of page group g
SvgPatterns(g) ==
    SelectSeq(FaceElements(g), LAMBDA el : el.tag = "pattern")

\* the positions of the scn operators of a content stream
PdfScn(contents) == {j \in 1..Len(contents) : contents[j].op = "scn"}

\* C27: no reference to a texture dangles: every /Pat{k} an scn operator of a
\* PDF page names is a pattern of the resources of that page, and every
\* <use href="#tex_i"> of an SVG refers to an <image id="tex_i"> of its <defs>
C27_NoDanglingTexture ==
    /\ IsPdf =>
          \A pg \in 1..Len(Doc.kids) : \A j \in PdfScn(Doc.kids[pg].contents) :
              Doc.kids[pg].contents[j].args[1] \in Doc.kids[pg].patterns
    /\ IsSvg =>
          \A g \in 1..Len(Doc.groups) : \A i \in 1..Len(SvgPatterns(g)) :
              /\ IsSome(Doc.defs)
              /\ \E h \in 1..Len(Unwrap(Doc.defs)) :
                    Unwrap(Doc.defs)[h].id = SvgPatterns(g)[i].use

\* a PDF made with textures whose page fills a triangle with a pattern, from
\* a model that also has a texture without pixel data
C27_Witness ==
    /\ IsPdf
    /\ \E pg \in 1..Len(Doc.kids) :
          /\ PdfScn(Doc.kids[pg].contents) # {}
          /\ Doc.kids[pg].patterns # {}
    /\ \E i \in 1..Len(Textures) : ~IsSome(Textures[i])

----------------------------------------------------------------------------
(* SVG: the id attributes of the document *)

\* the ids of the elements of a sequence that have one
IdsOf(elements) ==
    LET with_id == SelectSeq(elements, LAMBDA el : "id" \in DOMAIN el /\ el.id # <<>>)
    IN  [i \in 1..Len(with_id) |-> with_id[i].id]

\* the ids of a layer group: its own, and those of what it holds
LayerIds(layer) ==
    <<layer.id>> \o IdsOf(layer.elements)
        \o (IF layer.label = "Fold"
            THEN Concat([i \in 1..Len(layer.elements) |-> IdsOf(layer.elements[i].elements)])
            ELSE <<>>)

\* every id attribute of the document, in the order it is written
SvgIds(doc) ==
    (IF IsSome(doc.defs) THEN IdsOf(Unwrap(doc.defs)) ELSE <<>>)
        \o IdsOf(doc.namedview)
        \o Concat([g \in 1..Len(doc.groups) |->
                <<doc.groups[g].id>>
                \o Concat([i \in 1..Len(doc.groups[g].layers) |->
                        LayerIds(doc.groups[g].layers[i])])])

NoTwoEqual(ids) == \A i, j \in 1..Len(ids) : ids[i] = ids[j] => i = j

\* C28: in an SVG of two or more pages no two elements, on the same page or
\* on different pages, have the same id
C28_UniqueIds ==
    (IsSvg /\ Len(Doc.groups) >= 2) => NoTwoEqual(SvgIds(Doc))

----------------------------------------------------------------------------
(* What a request that fails leaves behind *)

\* the step is one of handler i
StepOf(i) == i \in 1..Len(handlers) /\ handlers'[i] # handlers[i]

\* the step of handler i returns a response that may come with a new project:
\* status 200 to an upload with a field file or to an action
MayStore(i) ==
    /\ handlers'[i].pc = "done"
    /\ handlers'[i].response.status = 200
    /\ \/ handlers[i].req.kind = "Action"
       \/ handlers[i].req.kind = "Upload" /\ handlers[i].req.name = "file"

\* C29: the steps of an upload whose import fails, of an upload with no field
\* file and of every request answered with an error status leave the stored
\* project as it is, and once a project is stored has_model of /api/status
\* is true after every later step
C29_ErrorLeavesProject ==
    [][/\ \A i \in 1..MaxRequests : (StepOf(i) /\ ~MayStore(i)) => project' = project
       /\ IsSome(project) =>
             /\ IsSome(project')
             /\ \A i \in 1..MaxRequests :
                   (StepOf(i) /\ handlers[i].req.kind = "Status") =>
                       Unwrap(handlers'[i].response.body).has_model]_vars

\* a project is stored and an upload of bytes that cannot be imported was
\* answered 500
C29_Witness ==
    /\ IsSome(project)
    /\ \E i \in 1..Len(handlers) :
          /\ handlers[i].req.kind = "Upload" /\ handlers[i].req.name = "file"
          /\ handlers[i].pc = "done"
          /\ handlers[i].response.status = 500

----------------------------------------------------------------------------
(* Export: every face is filled *)

\* the options the exporter of the document assigns pages with
DocOptions(p) == IF Doc.format = "svg" THEN p.options ELSE WidenedOptions(p)

\* the page of the document holds a filled shape of the face: a polygon of
\* the Faces layer, or a path of the vertices of the face painted with f
FilledOn(pg, f) ==
    IF Doc.format = "svg"
    THEN \E i \in 1..Len(FaceElements(pg)) :
            /\ FaceElements(pg)[i].tag = "polygon"
            /\ FaceElements(pg)[i].points[1].face = f
    ELSE \E q \in PdfPaths(Doc.kids[pg].contents) :
            /\ q.paint = "f"
            /\ "flap_at" \notin DOMAIN q.points[3]
            /\ "face" \in DOMAIN q.points[1]
            /\ q.points[1].face = f

\* the number of pages of the document
DocPages == IF Doc.format = "svg" THEN Len(Doc.groups) ELSE Len(Doc.kids)

\* C30: every face of at least 3 vertices of an island assigned to page p
\* has at least one filled shape on page p, in SVG and in PDF, also when the
\* export is made with textures and every triangle of the face has a
\* singular UV matrix
C30_EveryFaceFilled ==
    Exported =>
        \A f \in Faces : \A pg \in 1..DocPages :
            (/\ Len(FaceVerts(f)) >= 3
             /\ OwnerPage(DocOptions(Unwrap(project)),
                          Unwrap(project).islands[island_by_face(Unwrap(project), f)])
                    = pg - 1)
                => FilledOn(pg, f)

====
